---- MODULE Spec2Model ----
(***************************************************************************)
(* Polyoracle: change detection and alerting engine.                       *)
(*                                                                         *)
(* Model of internal/monitor (Monitor, Welford estimator, trajectory      *)
(* buffer, grouping, ranking, cooldown filter), of the markets and         *)
(* market_state tables of internal/storage, of Market.Validate and of the  *)
(* main loop, failure notices and signal handler of cmd/polyoracle.        *)
(*                                                                         *)
(* Numbers.  The program computes in float64.  The model computes in      *)
(* fixed point with floor rounding:                                        *)
(*   probabilities, means, sigma, Hellinger distance, liquidity pressure  *)
(*       in thousandths            (One == 1000 stands for 1.0)            *)
(*   Welford M2 and variance       in millionths                           *)
(*   energies, TC and scores       in hundredths (ScoreOne == 100 is 1.0)  *)
(*   volumes and liquidity         in thousands of dollars                 *)
(*   time                          in poll intervals                       *)
(* Epsilon (1e-9) is below every resolution used here; it only matters     *)
(* where the code divides by it, and those places are modelled explicitly. *)
(***************************************************************************)
EXTENDS Integers, Sequences, FiniteSets, TLC

VARIABLES
    states,              \* Monitor.states: market id -> MarketState
    notifiedMarkets,     \* Monitor.notifiedMarkets: market id -> notifiedRecord
    cycleCount,          \* Monitor.cycleCount
    dbStates,            \* storage: rows of table market_state
    now,                 \* the wall clock (time.Now), in poll intervals
    telegramEnabled,     \* cfg.Telegram.Enabled && telegramClient != nil
    pc,                  \* position of the main goroutine
    markets,             \* runMonitoringCycle: the fetched catalog
    alerts,              \* runMonitoringCycle: result of ProcessPoll
    ranked,              \* PostProcessAlerts: the groups after sort and top-K cut
    groups,              \* runMonitoringCycle: result of PostProcessAlerts
    scored,              \* the Alert values processMarket returned in the last ProcessPoll
    prevStates,          \* Monitor.states as it was when the last ProcessPoll began
    sendResult,          \* outcome of the delivery step of the last cycle
    consecutiveFailures, \* main: consecutiveFailures
    cyclesRun,           \* number of cycles started
    pollIdx,             \* ProcessPoll: index of the loop over markets
    pollPhase,           \* ProcessPoll: position inside one loop iteration
    hpc,                 \* position of the signal-handler goroutine
    ckTodo,              \* Shutdown's checkpoint: entries of m.states not yet saved
    ctxDone,             \* the context of main has been cancelled
    shutdownSaved,       \* market ids the shutdown checkpoint has gone over
    twin,                \* a second, independent Monitor with its own clock and store
    dbMarkets,           \* storage: rows of table markets, id -> last_updated
    maxMarkets,          \* Storage.maxMarkets
    notice,              \* main: the notice handleCycleResult sent in its last call
    storeCall,           \* the last call made on a Storage on its own, and its result
    pushed,              \* the values pushed into a trajectory buffer on its own
    request              \* the call of Client.doRequest in progress, on its own

vars == <<states, notifiedMarkets, cycleCount, dbStates, now, telegramEnabled,
          pc, markets, alerts, ranked, groups, scored, prevStates, sendResult,
          consecutiveFailures, cyclesRun, pollIdx, pollPhase, hpc, ckTodo,
          ctxDone, shutdownSaved, twin, dbMarkets, maxMarkets, notice,
          storeCall, pushed, request>>

----------------------------------------------------------------------------
(* Bounds of the model. *)

MaxCycles == 3      \* cycles the main loop runs
MaxCatalog == 2     \* longest fetched catalog
MaxAlerts == 3      \* longest alert list given to PostProcessAlerts on its own
MaxElapsed == 3     \* longest time since a recorded send, in poll intervals
MaxEvents == 2      \* largest storage.max_events
MaxStamp == 2       \* latest last_updated given to a store on its own
MaxWindow == 3      \* largest window of a trajectory buffer on its own
MaxPushes == 7      \* most values pushed into a trajectory buffer on its own
MaxOldWindow == 5   \* largest window_size of the run that wrote a checkpoint
MaxOldSamples == 5  \* most samples that run scored before its checkpoint
MaxCoolCycles == 4  \* cycles run after a recorded send
MaxRetries == 3     \* largest maxRetries of a Client

(* Fixed-point units. *)
One == 1000
ScoreOne == 100

(* monitor.Config, DefaultConfig() unless noted. *)
WindowSize == 3
Alpha == 100               \* 0.1
Ceiling == 1000            \* 10.0
Threshold == 300           \* 3.0
Volume24hrMin == 25        \* 25000
Volume1wkMin == 100        \* 100000
Volume1moMin == 500        \* 500000
TopK == 2                  \* as in TestPostProcessAlerts
CooldownMultiplier == 2
CheckpointInterval == 2
PollInterval == 1          \* cfg.Polymarket.PollInterval, the unit of time

(* welford.go constants. *)
Delta == 5                 \* 0.005
SigmaFallback == 10        \* 0.01

----------------------------------------------------------------------------
(* Arithmetic helpers. *)

Abs(x) == IF x < 0 THEN -x ELSE x

Max(a, b) == IF a >= b THEN a ELSE b

Min(a, b) == IF a < b THEN a ELSE b

RECURSIVE SqrtSearch(_, _, _)
SqrtSearch(n, lo, hi) ==
    IF lo >= hi THEN lo
    ELSE LET mid == (lo + hi + 1) \div 2
         IN  IF mid * mid <= n THEN SqrtSearch(n, mid, hi)
                               ELSE SqrtSearch(n, lo, mid - 1)

(* math.Sqrt on non-negative values: the integer square root. *)
Sqrt(n) == SqrtSearch(n, 0, 46340)

RECURSIVE SumSeq(_)
SumSeq(s) == IF s = <<>> THEN 0 ELSE Head(s) + SumSeq(Tail(s))

(* erf(x) for x = k/10, k = 0..24, in thousandths, as the polynomial of    *)
(* monitor.go evaluates; from x = 2.5 on the value is 1.000 at this        *)
(* resolution.                                                             *)
ErfTable == <<0, 112, 223, 329, 428, 521, 604, 678, 742, 797,
              843, 880, 910, 934, 952, 966, 976, 984, 989, 993,
              995, 997, 998, 999, 999>>

erf(x10) == IF x10 >= Len(ErfTable) THEN One ELSE ErfTable[x10 + 1]

(* market.Volume24hr / (state.AvgDepth + Epsilon), in tenths.  With a zero *)
(* depth the divisor is Epsilon: the ratio is 0 for zero volume and beyond *)
(* the saturation point of erf for any positive volume.                    *)
LoadRatio(volume, depth) ==
    IF depth = 0 THEN (IF volume = 0 THEN 0 ELSE Len(ErfTable))
    ELSE (volume * 10) \div depth

----------------------------------------------------------------------------
(* Market identifiers are strings "<eventID>:<marketID>", modelled as      *)
(* sequences of characters.                                                *)

IdA1 == <<"a", ":", "1">>
IdA2 == <<"a", ":", "2">>
IdB1 == <<"b", ":", "1">>
IdC1 == <<"c", ":", "1">>

RECURSIVE LastColon(_, _)
LastColon(id, i) ==
    IF i = 0 THEN 0
    ELSE IF id[i] = ":" THEN i ELSE LastColon(id, i - 1)

extractEventID(marketID) ==
    LET i == LastColon(marketID, Len(marketID))
    IN  IF i = 0 THEN marketID ELSE SubSeq(marketID, 1, i - 1)

----------------------------------------------------------------------------
(* models.MarketState and the estimator (welford.go). *)

NewState(marketID) ==
    [MarketID |-> marketID, WelfordCount |-> 0, WelfordMean |-> 0,
     WelfordM2 |-> 0, AvgDepth |-> 0, TCBuffer |-> <<>>, TCIndex |-> 0,
     LastPrice |-> 0, LastSigma |-> SigmaFallback, LastVolume |-> 0,
     UpdatedAt |-> 0]

UpdateWelford(state, price) ==
    LET count == state.WelfordCount + 1
        delta == price - state.WelfordMean
        mean  == state.WelfordMean + (delta \div count)
        delta2 == price - mean
    IN  [state EXCEPT !.WelfordCount = count,
                      !.WelfordMean = mean,
                      !.WelfordM2 = state.WelfordM2 + delta * delta2]

(* A noise estimate that reads the clock stamp of the state. *)
SigmaByClock(state) == SigmaFallback + state.UpdatedAt

GetSigma(state) ==
    IF state.WelfordCount < 2 THEN SigmaFallback
    ELSE LET variance == state.WelfordM2 \div (state.WelfordCount - 1)
         IN  Max(Sqrt(variance), Delta)

(* A buffer whose write index never advances. *)
UpdateTCBufferNoWrap(state, value, windowSize) ==
    LET buf == IF Len(state.TCBuffer) < windowSize
               THEN Append(state.TCBuffer, value)
               ELSE [state.TCBuffer EXCEPT ![state.TCIndex + 1] = value]
    IN  [state EXCEPT !.TCBuffer = buf]

UpdateTCBuffer(state, value, windowSize) ==
    LET buf == IF Len(state.TCBuffer) < windowSize
               THEN Append(state.TCBuffer, value)
               ELSE [state.TCBuffer EXCEPT ![state.TCIndex + 1] = value]
    IN  [state EXCEPT !.TCBuffer = buf,
                      !.TCIndex = (state.TCIndex + 1) % windowSize]

----------------------------------------------------------------------------
(* Monitor: detection (monitor.go). *)

(* A gate that looks at the volumes alone. *)
shouldProcessMarketAnyStatus(market) ==
    \/ market.Volume24hr >= Volume24hrMin
    \/ market.Volume1wk >= Volume1wkMin
    \/ market.Volume1mo >= Volume1moMin

(* A gate that asks for all three volumes at once. *)
shouldProcessMarketAllGates(market) ==
    IF ~market.Active \/ market.Closed THEN FALSE
    ELSE /\ market.Volume24hr >= Volume24hrMin
         /\ market.Volume1wk >= Volume1wkMin
         /\ market.Volume1mo >= Volume1moMin

shouldProcessMarket(market) ==
    IF ~market.Active \/ market.Closed THEN FALSE
    ELSE \/ market.Volume24hr >= Volume24hrMin
         \/ market.Volume1wk >= Volume1wkMin
         \/ market.Volume1mo >= Volume1moMin

(* A new record that depends on the records the table already holds. *)
getOrCreateStateByRank(st, marketID) ==
    IF marketID \in DOMAIN st THEN st
    ELSE st @@ (marketID :> [NewState(marketID) EXCEPT
                                !.WelfordMean = 100 * Cardinality(DOMAIN st)])

getOrCreateState(st, marketID) ==
    IF marketID \in DOMAIN st THEN st
    ELSE st @@ (marketID :> NewState(marketID))

(* A divergence that carries the direction of the move. *)
HellingerSigned(p0, p1) ==
    (IF p1 < p0 THEN -1 ELSE 1)
        * Sqrt((One - (Sqrt(p1 * p0) + Sqrt((One - p1) * (One - p0)))) * One)

(* A divergence that is never below a tenth. *)
HellingerWithFloor(p0, p1) ==
    Max(One \div 10,
        Sqrt((One - (Sqrt(p1 * p0) + Sqrt((One - p1) * (One - p0)))) * One))

(* sqrt(1 - (sqrt(p1*p0) + sqrt((1-p1)*(1-p0)))), in thousandths. *)
Hellinger(p0, p1) ==
    Sqrt((One - (Sqrt(p1 * p0) + Sqrt((One - p1) * (One - p0)))) * One)

(* The alert condition of processMarket: finalScore > m.config.Threshold.  *)
AlertFiresAboveCeiling(finalScore) == finalScore > Ceiling

AlertFires(finalScore) == finalScore > Threshold

(* The baseline-update guard of processMarket: finalScore < m.config.Ceiling. *)
BaselineAccepts(finalScore) == finalScore < Ceiling

(* processMarket mutates the state it is given and returns an Alert value; *)
(* the operator returns both.  t is the reading of time.Now().             *)
processMarket(state, market, volumeDelta, t) ==
    LET p0 == state.LastPrice
        p1 == market.YesProbability
        hDist == Hellinger(p0, p1)
        priceDelta == Abs(p1 - p0)
        loadRatio == LoadRatio(market.Volume24hr, state.AvgDepth)
        liqPressure == erf(loadRatio)
        instEnergy == (hDist * liqPressure) \div ((One \div ScoreOne) * state.LastSigma)
        direction == IF p1 < p0 THEN -1 ELSE IF p1 = p0 THEN 0 ELSE 1
        s1 == UpdateTCBuffer(state, instEnergy * direction, WindowSize)
        tc == Abs(SumSeq(s1.TCBuffer))
        finalScore == (instEnergy * Sqrt(tc * ScoreOne)) \div ScoreOne
        s2 == IF BaselineAccepts(finalScore)
              THEN [UpdateWelford(s1, p1) EXCEPT
                        !.AvgDepth = ((One - Alpha) * s1.AvgDepth
                                      + Alpha * market.Liquidity) \div One]
              ELSE s1
    IN  [state |-> s2,
         alert |-> [MarketID |-> market.ID,
                    FinalScore |-> finalScore,
                    IsAlert |-> AlertFires(finalScore),
                    HellingerDist |-> hDist,
                    LiqPressure |-> liqPressure,
                    InstEnergy |-> instEnergy,
                    TC |-> tc,
                    OldProb |-> p0,
                    NewProb |-> p1,
                    PriceDelta |-> priceDelta,
                    VolumeDelta |-> volumeDelta,
                    Depth |-> market.Liquidity,
                    DetectedAt |-> t]]

(* ProcessPoll, the branch state.WelfordCount == 0: the state is set from  *)
(* the sample.                                                             *)
ColdStart(state, market) ==
    [state EXCEPT !.LastPrice = market.YesProbability,
                  !.LastVolume = market.Volume24hr,
                  !.WelfordCount = 1,
                  !.LastSigma = SigmaFallback,
                  !.AvgDepth = market.Liquidity]

(* A poll that leaves the last probability of the record as it was. *)
CommitSampleKeepsPrice(state, market, t) ==
    [state EXCEPT !.LastVolume = market.Volume24hr,
                  !.LastSigma = GetSigma(state),
                  !.UpdatedAt = t]

(* A poll that stamps the record and leaves the observation as it was. *)
CommitSampleWithoutObservation(state, market, t) ==
    [state EXCEPT !.LastSigma = GetSigma(state),
                  !.UpdatedAt = t]

(* ProcessPoll, the assignments after processMarket has returned. *)
CommitSample(state, market, t) ==
    [state EXCEPT !.LastPrice = market.YesProbability,
                  !.LastVolume = market.Volume24hr,
                  !.LastSigma = GetSigma(state),
                  !.UpdatedAt = t]

VolumeDelta(state, market) ==
    LET d == market.Volume24hr - state.LastVolume
    IN  IF d < 0 THEN 0 ELSE d

(* One iteration of the loop of ProcessPoll over market.  The result holds *)
(* the state table after the iteration and, when the market was scored,    *)
(* the Alert value processMarket returned.                                 *)
PollMarket(st, market, t) ==
    IF ~shouldProcessMarket(market) THEN [states |-> st, scored |-> <<>>]
    ELSE
      LET st1 == getOrCreateState(st, market.ID)
          state == st1[market.ID]
      IN  IF state.WelfordCount = 0
          THEN [states |-> [st1 EXCEPT ![market.ID] = ColdStart(state, market)],
                scored |-> <<>>]
          ELSE
            LET r == processMarket(state, market, VolumeDelta(state, market), t)
            IN  [states |-> [st1 EXCEPT ![market.ID] =
                                CommitSample(r.state, market, t)],
                 scored |-> <<r.alert>>]

RECURSIVE PollLoop(_, _, _, _, _)
PollLoop(st, ms, i, t, acc) ==
    IF i > Len(ms) THEN [states |-> st, scored |-> acc]
    ELSE LET r == PollMarket(st, ms[i], t)
         IN  PollLoop(r.states, ms, i + 1, t, acc \o r.scored)

RECURSIVE SelectAlerts(_)
SelectAlerts(sc) ==
    IF sc = <<>> THEN <<>>
    ELSE IF Head(sc).IsAlert THEN <<Head(sc)>> \o SelectAlerts(Tail(sc))
         ELSE SelectAlerts(Tail(sc))

(* Market.Validate: the checks on the probabilities and the amounts.  The  *)
(* identifier, title and category of a modelled market are never empty and *)
(* its time stamps are those FetchEvents sets, which pass.                 *)
Tolerance == One \div 100

Validate(market) ==
    /\ market.YesProbability >= 0 /\ market.YesProbability <= One
    /\ market.NoProbability >= 0 /\ market.NoProbability <= One
    /\ market.YesProbability + market.NoProbability >= One - Tolerance
    /\ market.YesProbability + market.NoProbability <= One + Tolerance
    /\ market.Volume24hr >= 0
    /\ market.Volume1wk >= 0
    /\ market.Volume1mo >= 0
    /\ market.Liquidity >= 0

Restrict(f, K) == [id \in K |-> f[id]]

(* The cap turned round: the n rows with the oldest last_updated are kept. *)
KeptRowsOldest(dbm, n) ==
    IF n < 0 \/ n >= Cardinality(DOMAIN dbm) THEN {DOMAIN dbm}
    ELSE {K \in SUBSET DOMAIN dbm :
             /\ Cardinality(K) = n
             /\ \A k \in K : \A o \in DOMAIN dbm \ K : dbm[k] <= dbm[o]}

(* DELETE FROM markets WHERE id NOT IN (SELECT id FROM markets ORDER BY    *)
(* last_updated DESC LIMIT n): the sets of rows the statement can keep.    *)
(* Rows with equal last_updated come in any order; a negative LIMIT is no  *)
(* limit.                                                                  *)
KeptRows(dbm, n) ==
    IF n < 0 \/ n >= Cardinality(DOMAIN dbm) THEN {DOMAIN dbm}
    ELSE {K \in SUBSET DOMAIN dbm :
             /\ Cardinality(K) = n
             /\ \A k \in K : \A o \in DOMAIN dbm \ K : dbm[k] >= dbm[o]}

(* A market_state table without the foreign key. *)
CascadeNone(dbs, K) == dbs

(* The rows of market_state left when only the markets K remain:           *)
(* market_id REFERENCES markets(id) ON DELETE CASCADE.                     *)
Cascade(dbs, K) == Restrict(dbs, DOMAIN dbs \cap K)

(* Storage.RotateMarkets: the states of the two tables it can leave. *)
RotateMarkets(dbm, dbs, n) ==
    {[dbMarkets |-> Restrict(dbm, K), dbStates |-> Cascade(dbs, K), err |-> FALSE] :
        K \in KeptRows(dbm, n)}

(* Storage.AddMarket: validation, INSERT (which fails on a row with the    *)
(* same id), the cap, all in one transaction.                              *)
AddMarket(dbm, dbs, n, market, lastUpdated) ==
    IF ~Validate(market) \/ market.ID \in DOMAIN dbm
    THEN {[dbMarkets |-> dbm, dbStates |-> dbs, err |-> TRUE]}
    ELSE RotateMarkets(dbm @@ (market.ID :> lastUpdated), dbs, n)

(* Storage.UpdateMarket *)
UpdateMarket(dbm, market, lastUpdated) ==
    IF ~Validate(market) \/ market.ID \notin DOMAIN dbm
    THEN [dbMarkets |-> dbm, err |-> TRUE]
    ELSE [dbMarkets |-> [dbm EXCEPT ![market.ID] = lastUpdated], err |-> FALSE]

(* Storage.SaveState: INSERT OR REPLACE of the row of marketID; the        *)
(* statement fails, and stores nothing, when markets has no row marketID.  *)
SaveState(dbm, db, marketID, state) ==
    IF marketID \notin DOMAIN dbm THEN db
    ELSE IF marketID \in DOMAIN db THEN [db EXCEPT ![marketID] = state]
    ELSE db @@ (marketID :> state)

(* A checkpoint that saves nothing once a SaveState has failed. *)
checkpointGivesUp(dbm, st, db) ==
    IF DOMAIN st \subseteq DOMAIN dbm
    THEN [id \in DOMAIN db \cup DOMAIN st |->
             IF id \in DOMAIN st THEN st[id] ELSE db[id]]
    ELSE db

(* Monitor.checkpoint: SaveState of every entry of m.states; a failed      *)
(* SaveState is logged and the range goes on.                              *)
checkpoint(dbm, st, db) ==
    [id \in DOMAIN db \cup (DOMAIN st \cap DOMAIN dbm) |->
        IF id \in DOMAIN st /\ id \in DOMAIN dbm THEN st[id] ELSE db[id]]

(* Monitor.ProcessPoll as a whole: the loop, the cycle counter and the     *)
(* periodic checkpoint.                                                    *)
ProcessPoll(st, cc, dbm, db, ms, t) ==
    LET r == PollLoop(st, ms, 1, t, <<>>)
        cc1 == cc + 1
    IN  [states |-> r.states,
         cycleCount |-> cc1,
         dbStates |-> IF cc1 % CheckpointInterval = 0
                      THEN checkpoint(dbm, r.states, db) ELSE db,
         scored |-> r.scored,
         alerts |-> SelectAlerts(r.scored)]

(* The time FetchEvents stamps on the i-th market of a catalog fetched at  *)
(* t: time.Now() is read once per market, so later entries are newer.      *)
StampOf(t, i) == t * (MaxCatalog + 1) + i

(* runMonitoringCycle, the loop over the fetched markets: AddMarket for a  *)
(* market the store does not hold, UpdateMarket otherwise; a failure is    *)
(* logged and the loop goes on.  The set of states of the two tables the   *)
(* loop can leave.                                                         *)
RECURSIVE StoreMarkets(_, _, _, _, _, _)
StoreMarkets(dbm, dbs, n, ms, i, t) ==
    IF i > Len(ms) THEN {[dbMarkets |-> dbm, dbStates |-> dbs]}
    ELSE IF ms[i].ID \notin DOMAIN dbm
    THEN UNION {StoreMarkets(r.dbMarkets, r.dbStates, n, ms, i + 1, t) :
                   r \in AddMarket(dbm, dbs, n, ms[i], StampOf(t, i))}
    ELSE StoreMarkets(UpdateMarket(dbm, ms[i], StampOf(t, i)).dbMarkets,
                      dbs, n, ms, i + 1, t)

----------------------------------------------------------------------------
(* Monitor: grouping, ranking and cooldown (monitor.go). *)

(* The orders a sort.Slice call can leave a slice in: sort.Slice is not    *)
(* stable, so every arrangement that satisfies the comparison is possible. *)
IndexPerms(n) == {p \in [1..n -> 1..n] : \A i \in 1..n : \E j \in 1..n : p[j] = i}

Permute(s, p) == [i \in 1..Len(s) |-> s[p[i]]]

ScoreDescending(ms) ==
    \A i \in 1..Len(ms) : \A j \in 1..Len(ms) :
        i < j => ~(ms[j].FinalScore > ms[i].FinalScore)

BestDescending(gs) ==
    \A i \in 1..Len(gs) : \A j \in 1..Len(gs) :
        i < j => ~(gs[j].BestScore > gs[i].BestScore)

SortMarkets(ms) ==
    {Permute(ms, p) : p \in {q \in IndexPerms(Len(ms)) : ScoreDescending(Permute(ms, q))}}

SortGroups(gs) ==
    {Permute(gs, p) : p \in {q \in IndexPerms(Len(gs)) : BestDescending(Permute(gs, q))}}

RECURSIVE BestScoreOf(_, _)
BestScoreOf(ms, best) ==
    IF ms = <<>> THEN best
    ELSE BestScoreOf(Tail(ms), IF Head(ms).FinalScore > best
                               THEN Head(ms).FinalScore ELSE best)

(* Monitor.GroupByEvent.  The result slice is filled by ranging over a Go *)
(* map, so the groups come in any order: the operator gives the set of     *)
(* slices the call can return.                                             *)
GroupByEvent(as) ==
    LET evs == {extractEventID(as[i].MarketID) : i \in 1..Len(as)}
        n == Cardinality(evs)
        MembersOf(e) ==
            LET InEvent(a) == extractEventID(a.MarketID) = e
            IN  SelectSeq(as, InEvent)
        GroupsOf(e) ==
            {[EventID |-> e,
              BestScore |-> BestScoreOf(MembersOf(e), 0),
              Markets |-> m] : m \in SortMarkets(MembersOf(e))}
        choices == {g \in [evs -> UNION {GroupsOf(e) : e \in evs}] :
                        \A e \in evs : g[e] \in GroupsOf(e)}
        orders == {o \in [1..n -> evs] : \A e \in evs : \E i \in 1..n : o[i] = e}
    IN  {[i \in 1..n |-> g[o[i]]] : g \in choices, o \in orders}

isDeterministicZone(p) == p > 900 \/ p < 100

getDirection(oldProb, newProb) ==
    IF newProb > oldProb THEN "increase"
    ELSE IF newProb < oldProb THEN "decrease"
    ELSE "no_change"

(* The test without the deterministic-zone override. *)
SuppressedIgnoringZone(nm, alert, cooldown, t) ==
    /\ alert.MarketID \in DOMAIN nm
    /\ t - nm[alert.MarketID].SentAt < cooldown
    /\ nm[alert.MarketID].Direction = getDirection(alert.OldProb, alert.NewProb)

(* The test of the inner loop of FilterRecentlySent: TRUE when the alert   *)
(* is skipped (continue).                                                  *)
Suppressed(nm, alert, cooldown, t) ==
    /\ alert.MarketID \in DOMAIN nm
    /\ t - nm[alert.MarketID].SentAt < cooldown
    /\ LET rec == nm[alert.MarketID]
           sameDirection == rec.Direction = getDirection(alert.OldProb, alert.NewProb)
           enteringDetZone == isDeterministicZone(alert.NewProb)
                              /\ ~isDeterministicZone(rec.NewProb)
       IN  sameDirection /\ ~enteringDetZone

(* FilterRecentlySent that leaves the BestScore of a group as it was. *)
RECURSIVE FilterRecentlySentKeepBest(_, _, _, _)
FilterRecentlySentKeepBest(nm, gs, cooldown, t) ==
    IF gs = <<>> THEN <<>>
    ELSE LET group == Head(gs)
             Kept(a) == ~Suppressed(nm, a, cooldown, t)
             filtered == SelectSeq(group.Markets, Kept)
             rest == FilterRecentlySentKeepBest(nm, Tail(gs), cooldown, t)
         IN  IF Len(filtered) > 0
             THEN <<[group EXCEPT !.Markets = filtered]>> \o rest
             ELSE rest

RECURSIVE FilterRecentlySent(_, _, _, _)
FilterRecentlySent(nm, gs, cooldown, t) ==
    IF gs = <<>> THEN <<>>
    ELSE LET group == Head(gs)
             Kept(a) == ~Suppressed(nm, a, cooldown, t)
             filtered == SelectSeq(group.Markets, Kept)
             rest == FilterRecentlySent(nm, Tail(gs), cooldown, t)
         IN  IF Len(filtered) > 0
             THEN <<[group EXCEPT !.Markets = filtered,
                                  !.BestScore = filtered[1].FinalScore]>> \o rest
             ELSE rest

RECURSIVE RecordAlerts(_, _, _)
RecordAlerts(nm, ms, t) ==
    IF ms = <<>> THEN nm
    ELSE LET a == Head(ms)
             rec == [Direction |-> getDirection(a.OldProb, a.NewProb),
                     NewProb |-> a.NewProb,
                     SentAt |-> t]
         IN  RecordAlerts(IF a.MarketID \in DOMAIN nm
                          THEN [nm EXCEPT ![a.MarketID] = rec]
                          ELSE nm @@ (a.MarketID :> rec),
                          Tail(ms), t)

RECURSIVE RecordNotified(_, _, _)
RecordNotified(nm, gs, t) ==
    IF gs = <<>> THEN nm
    ELSE RecordNotified(RecordAlerts(nm, Head(gs).Markets, t), Tail(gs), t)

(* The cut taken one group too late. *)
TruncateLate(gs, k) == IF Len(gs) > k + 1 THEN SubSeq(gs, 1, k + 1) ELSE gs

(* groups = groups[:m.config.TopK] when len(groups) > m.config.TopK *)
Truncate(gs, k) == IF Len(gs) > k THEN SubSeq(gs, 1, k) ELSE gs

(* PostProcessAlerts with the cooldown filter ahead of the cut: a group    *)
(* below the cut moves up when a group above it is dropped.                *)
PostProcessAlertsBackfill(nm, as, pollInterval, t) ==
    LET sorted == UNION {SortGroups(g) : g \in GroupByEvent(as)}
        cooldown == CooldownMultiplier * pollInterval
    IN  {[ranked |-> Truncate(s, TopK),
          groups |-> Truncate(FilterRecentlySent(nm, s, cooldown, t), TopK)] :
            s \in sorted}

(* Monitor.PostProcessAlerts: the set of results the call can return, each *)
(* with the ranked list it was filtered from.                              *)
PostProcessAlerts(nm, as, pollInterval, t) ==
    LET sorted == UNION {SortGroups(g) : g \in GroupByEvent(as)}
        cooldown == CooldownMultiplier * pollInterval
    IN  {[ranked |-> Truncate(s, TopK),
          groups |-> FilterRecentlySent(nm, Truncate(s, TopK), cooldown, t)] :
            s \in sorted}

----------------------------------------------------------------------------
(* The catalogs a fetch can return.  FetchEvents concatenates the pages of *)
(* the upstream API without removing repeated events, so one identifier    *)
(* can occur twice in a catalog.                                           *)

Market(id, p, v24, v1wk, v1mo, liq) ==
    [ID |-> id, YesProbability |-> p, NoProbability |-> One - p,
     Volume24hr |-> v24, Volume1wk |-> v1wk, Volume1mo |-> v1mo,
     Liquidity |-> liq, Active |-> TRUE, Closed |-> FALSE]

(* <<YesProbability, Volume24hr, Liquidity>>; a zero volume fails every    *)
(* volume gate.                                                            *)
Quotes == {<<500, 100, 50>>, <<400, 100, 100>>, <<600, 30, 50>>}

CatalogIds == {IdA1, IdB1}

QuotesOf(id) == IF id = IdA1 THEN Quotes ELSE {<<500, 100, 50>>, <<400, 0, 100>>}

(* A market whose two outcome prices do not sum to one: FetchEvents parses  *)
(* outcomePrices and checks nothing but that both are not zero.            *)
Inconsistent == [Market(IdB1, 600, 100, 0, 0, 50) EXCEPT !.NoProbability = 100]

Snapshots ==
    UNION {{Market(id, q[1], q[2], 0, 0, q[3]) : q \in QuotesOf(id)} : id \in CatalogIds}
        \cup {Inconsistent}

SeqsUpTo(S, n) == UNION {[1..k -> S] : k \in 0..n}

Catalogs == SeqsUpTo(Snapshots, MaxCatalog)

EmptyMap == <<>>

NoNotice == [kind |-> "none", n |-> 0]

NoCall == [op |-> "none", id |-> <<>>, lastUpdated |-> 0, err |-> FALSE,
           removed |-> {}, hadState |-> {}]

NoPushes == [window |-> WindowSize, values |-> <<>>]

(* No call of doRequest is in progress. *)
NoRequest == [pos |-> "none", maxRetries |-> 0, i |-> 0, resps |-> <<>>,
              lastErr |-> "nil", result |-> "none"]

NoTwin == [states |-> EmptyMap, cycleCount |-> 0, dbStates |-> EmptyMap,
           scored |-> <<>>, alerts |-> <<>>, now |-> 0, polled |-> FALSE]

----------------------------------------------------------------------------
(* The main goroutine: main and runMonitoringCycle, one cycle at a time.   *)

Init ==
    /\ states = EmptyMap
    /\ notifiedMarkets = EmptyMap
    /\ cycleCount = 0
    /\ dbStates = EmptyMap
    /\ now = 0
    /\ telegramEnabled \in BOOLEAN
    /\ pc = "idle"
    /\ markets = <<>>
    /\ alerts = <<>>
    /\ ranked = <<>>
    /\ groups = <<>>
    /\ scored = <<>>
    /\ prevStates = EmptyMap
    /\ sendResult = "none"
    /\ consecutiveFailures = 0
    /\ cyclesRun = 0
    /\ pollIdx = 0
    /\ pollPhase = "none"
    /\ hpc = "waiting"
    /\ ckTodo = {}
    /\ ctxDone = FALSE
    /\ shutdownSaved = {}
    /\ twin = NoTwin
    /\ dbMarkets = EmptyMap
    /\ maxMarkets \in 1..MaxEvents
    /\ notice = NoNotice
    /\ storeCall = NoCall
    /\ pushed = NoPushes
    /\ request = NoRequest

engineVars == <<states, cycleCount, dbStates, scored, prevStates, alerts>>
auxVars == <<dbMarkets, maxMarkets, notice, storeCall, pushed, request>>
unitVars == <<storeCall, pushed, request>>
handlerVars == <<pollIdx, pollPhase, hpc, ckTodo, ctxDone, shutdownSaved>>

(* polyClient.FetchEvents returned a catalog. *)
Fetch ==
    /\ pc = "idle"
    /\ cyclesRun < MaxCycles
    /\ \E cat \in Catalogs : markets' = cat
    /\ pc' = "fetched"
    /\ cyclesRun' = cyclesRun + 1
    /\ UNCHANGED <<engineVars, notifiedMarkets, now, telegramEnabled, ranked,
                   groups, sendResult, consecutiveFailures, handlerVars, twin, auxVars>>

(* handleCycleResult with an error notice for every failed cycle. *)
handleCycleResultEveryFailure(failures, failed, enabled) ==
    IF failed
    THEN [consecutiveFailures |-> failures + 1,
          notice |-> IF enabled THEN [kind |-> "error", n |-> 0] ELSE NoNotice]
    ELSE [consecutiveFailures |-> 0,
          notice |-> IF failures > 0 /\ enabled
                     THEN [kind |-> "recovery", n |-> failures] ELSE NoNotice]

(* handleCycleResult: the counter it leaves and the notice it sends.  A    *)
(* notice whose delivery fails is only logged.                             *)
handleCycleResult(failures, failed, enabled) ==
    IF failed
    THEN [consecutiveFailures |-> failures + 1,
          notice |-> IF failures + 1 = 1 /\ enabled
                     THEN [kind |-> "error", n |-> 0] ELSE NoNotice]
    ELSE [consecutiveFailures |-> 0,
          notice |-> IF failures > 0 /\ enabled
                     THEN [kind |-> "recovery", n |-> failures] ELSE NoNotice]

(* A failed fetch after which ProcessPoll runs on the empty catalog. *)
FetchFailThenPoll ==
    /\ pc = "idle"
    /\ cyclesRun < MaxCycles
    /\ pc' = "done"
    /\ cyclesRun' = cyclesRun + 1
    /\ \E h \in {handleCycleResult(consecutiveFailures, TRUE, telegramEnabled)} :
           /\ consecutiveFailures' = h.consecutiveFailures
           /\ notice' = h.notice
    /\ \E r \in {ProcessPoll(states, cycleCount, dbMarkets, dbStates, <<>>, now)} :
           /\ cycleCount' = r.cycleCount
           /\ dbStates' = r.dbStates
    /\ UNCHANGED <<states, scored, prevStates, alerts, notifiedMarkets, now,
                   telegramEnabled, markets, ranked, groups, sendResult,
                   handlerVars, twin, dbMarkets, maxMarkets, unitVars>>

(* polyClient.FetchEvents failed: runMonitoringCycle returns the error and *)
(* handleCycleResult counts it.                                            *)
FetchFail ==
    /\ pc = "idle"
    /\ cyclesRun < MaxCycles
    /\ pc' = "done"
    /\ cyclesRun' = cyclesRun + 1
    /\ \E h \in {handleCycleResult(consecutiveFailures, TRUE, telegramEnabled)} :
           /\ consecutiveFailures' = h.consecutiveFailures
           /\ notice' = h.notice
    /\ UNCHANGED <<engineVars, notifiedMarkets, now, telegramEnabled, markets,
                   ranked, groups, sendResult, handlerVars, twin, dbMarkets,
                   maxMarkets, unitVars>>

(* The loop over the fetched markets, then alerts := mon.ProcessPoll(markets) *)
Poll ==
    /\ pc = "fetched"
    /\ \E s \in StoreMarkets(dbMarkets, dbStates, maxMarkets, markets, 1, now) :
       \E r \in {ProcessPoll(states, cycleCount, s.dbMarkets, s.dbStates, markets, now)} :
           /\ dbMarkets' = s.dbMarkets
           /\ states' = r.states
           /\ cycleCount' = r.cycleCount
           /\ dbStates' = r.dbStates
           /\ scored' = r.scored
           /\ alerts' = r.alerts
    /\ prevStates' = states
    /\ pc' = "polled"
    /\ UNCHANGED <<notifiedMarkets, now, telegramEnabled, markets, ranked,
                   groups, sendResult, consecutiveFailures, cyclesRun,
                   handlerVars, twin, maxMarkets, notice, unitVars>>

(* groups := mon.PostProcessAlerts(alerts, cfg.Polymarket.PollInterval) *)
PostProcess ==
    /\ pc = "polled"
    /\ \E r \in PostProcessAlerts(notifiedMarkets, alerts, PollInterval, now) :
          /\ ranked' = r.ranked
          /\ groups' = r.groups
    /\ pc' = "ranked"
    /\ UNCHANGED <<engineVars, notifiedMarkets, now, telegramEnabled, markets,
                   sendResult, consecutiveFailures, cyclesRun, handlerVars, twin, auxVars>>

(* Deliver with the bookkeeping done for the suppressed alerts as well. *)
DeliverRecordsRanked ==
    /\ pc = "ranked"
    /\ IF Len(ranked) > 0
       THEN IF telegramEnabled
            THEN \/ /\ sendResult' = "ok"
                    /\ notifiedMarkets' = RecordNotified(notifiedMarkets, ranked, now)
                 \/ /\ sendResult' = "failed"
                    /\ UNCHANGED notifiedMarkets
            ELSE /\ sendResult' = "disabled"
                 /\ UNCHANGED notifiedMarkets
       ELSE /\ sendResult' = "none"
            /\ UNCHANGED notifiedMarkets
    /\ \E h \in {handleCycleResult(consecutiveFailures, FALSE, telegramEnabled)} :
           /\ consecutiveFailures' = h.consecutiveFailures
           /\ notice' = h.notice
    /\ pc' = "done"
    /\ UNCHANGED <<engineVars, now, telegramEnabled, markets, ranked, groups,
                   cyclesRun, handlerVars, twin, dbMarkets, maxMarkets, unitVars>>

(* Deliver with the bookkeeping done whatever Send returned. *)
DeliverRecordsAlways ==
    /\ pc = "ranked"
    /\ IF Len(groups) > 0
       THEN /\ sendResult' \in (IF telegramEnabled THEN {"ok", "failed"} ELSE {"disabled"})
            /\ notifiedMarkets' = RecordNotified(notifiedMarkets, groups, now)
       ELSE /\ sendResult' = "none"
            /\ UNCHANGED notifiedMarkets
    /\ \E h \in {handleCycleResult(consecutiveFailures, FALSE, telegramEnabled)} :
           /\ consecutiveFailures' = h.consecutiveFailures
           /\ notice' = h.notice
    /\ pc' = "done"
    /\ UNCHANGED <<engineVars, now, telegramEnabled, markets, ranked, groups,
                   cyclesRun, handlerVars, twin, dbMarkets, maxMarkets, unitVars>>

(* The rest of runMonitoringCycle: the delivery of the groups and, after a *)
(* successful Send, RecordNotified.  The cycle returns nil in every case,  *)
(* so handleCycleResult resets consecutiveFailures.                        *)
Deliver ==
    /\ pc = "ranked"
    /\ IF Len(groups) > 0
       THEN IF telegramEnabled
            THEN \/ /\ sendResult' = "ok"
                    /\ notifiedMarkets' = RecordNotified(notifiedMarkets, groups, now)
                 \/ /\ sendResult' = "failed"
                    /\ UNCHANGED notifiedMarkets
            ELSE /\ sendResult' = "disabled"
                 /\ UNCHANGED notifiedMarkets
       ELSE /\ sendResult' = "none"
            /\ UNCHANGED notifiedMarkets
    /\ \E h \in {handleCycleResult(consecutiveFailures, FALSE, telegramEnabled)} :
           /\ consecutiveFailures' = h.consecutiveFailures
           /\ notice' = h.notice
    /\ pc' = "done"
    /\ UNCHANGED <<engineVars, now, telegramEnabled, markets, ranked, groups,
                   cyclesRun, handlerVars, twin, dbMarkets, maxMarkets, unitVars>>

(* runMonitoringCycle has returned and its locals are gone; after a cycle  *)
(* started by the ticker the loop calls store.RotateMarkets; then it waits *)
(* for the next tick.                                                      *)
Tick ==
    /\ pc = "done"
    /\ pc' = "idle"
    /\ now' = now + PollInterval
    /\ markets' = <<>>
    /\ alerts' = <<>>
    /\ ranked' = <<>>
    /\ groups' = <<>>
    /\ scored' = <<>>
    /\ prevStates' = EmptyMap
    /\ notice' = NoNotice
    /\ IF cyclesRun > 1
       THEN \E r \in RotateMarkets(dbMarkets, dbStates, maxMarkets) :
                /\ dbMarkets' = r.dbMarkets
                /\ dbStates' = r.dbStates
       ELSE UNCHANGED <<dbMarkets, dbStates>>
    /\ UNCHANGED <<states, cycleCount, notifiedMarkets,
                   telegramEnabled, sendResult, consecutiveFailures, cyclesRun,
                   handlerVars, twin, maxMarkets, unitVars>>

Next == Fetch \/ FetchFail \/ Poll \/ PostProcess \/ Deliver \/ Tick

Spec == Init /\ [][Next]_vars

----------------------------------------------------------------------------
(* Properties of the detection cycle, checked under Spec. *)

(* The alerts of the groups of a list. *)
MembersOfGroups(gs) == UNION {{gs[i].Markets[j] : j \in 1..Len(gs[i].Markets)} : i \in 1..Len(gs)}

AfterPoll == pc \in {"polled", "ranked", "done"}

EntriesOf(id) == {i \in 1..Len(markets) : markets[i].ID = id}

AlertsFor(id) == {i \in 1..Len(alerts) : alerts[i].MarketID = id}

ScoredFor(id) == {i \in 1..Len(scored) : scored[i].MarketID = id}

NoPriorState(id) == id \notin DOMAIN prevStates \/ prevStates[id].WelfordCount = 0

ColdState(market) ==
    [NewState(market.ID) EXCEPT !.LastPrice = market.YesProbability,
                                !.LastVolume = market.Volume24hr,
                                !.WelfordCount = 1,
                                !.LastSigma = SigmaFallback,
                                !.AvgDepth = market.Liquidity]

(* C1 (as claimed): in a ProcessPoll cycle in which an eligible series had *)
(* no prior state, the cycle leaves the series with the state initialized  *)
(* from its sample and returns no alert for it.                            *)
C1_ColdStartEmitsNoAlert ==
    AfterPoll =>
        \A i \in 1..Len(markets) :
            (shouldProcessMarket(markets[i]) /\ NoPriorState(markets[i].ID)) =>
                /\ AlertsFor(markets[i].ID) = {}
                /\ states[markets[i].ID] = ColdState(markets[i])

(* The same statement for the catalogs that list the series once. *)
ColdStartSingleEntry ==
    AfterPoll =>
        \A i \in 1..Len(markets) :
            (/\ shouldProcessMarket(markets[i])
             /\ NoPriorState(markets[i].ID)
             /\ Cardinality(EntriesOf(markets[i].ID)) = 1) =>
                /\ AlertsFor(markets[i].ID) = {}
                /\ ScoredFor(markets[i].ID) = {}
                /\ states[markets[i].ID] = ColdState(markets[i])

RECURSIVE AboveThreshold(_)
AboveThreshold(sc) ==
    IF sc = <<>> THEN <<>>
    ELSE IF Head(sc).FinalScore > Threshold
         THEN <<Head(sc)>> \o AboveThreshold(Tail(sc))
         ELSE AboveThreshold(Tail(sc))

(* C5: the list ProcessPoll returns holds exactly the scored samples whose *)
(* final score is strictly greater than the threshold, in scoring order.   *)
C5_AlertIffAboveThreshold == alerts = AboveThreshold(scored)

C5_Witness ==
    /\ pc = "polled"
    /\ \E i \in 1..Len(scored) : scored[i].FinalScore > Threshold
    /\ \E i \in 1..Len(scored) :
          scored[i].FinalScore > 0 /\ scored[i].FinalScore <= Threshold

(* The series scored exactly once in the last ProcessPoll, with the sample *)
(* and the Alert value of that scoring.                                    *)
ScoredOnce(id) ==
    /\ id \in DOMAIN prevStates
    /\ prevStates[id].WelfordCount > 0
    /\ Cardinality(EntriesOf(id)) = 1
    /\ Cardinality(ScoredFor(id)) = 1

SampleOf(id) == markets[CHOOSE i \in EntriesOf(id) : TRUE]

ScoreOf(id) == scored[CHOOSE i \in ScoredFor(id) : TRUE].FinalScore

Baseline(state) ==
    <<state.WelfordCount, state.WelfordMean, state.WelfordM2, state.AvgDepth>>

BaselineWith(state, market) ==
    LET w == UpdateWelford(state, market.YesProbability)
    IN  <<w.WelfordCount, w.WelfordMean, w.WelfordM2,
          ((One - Alpha) * state.AvgDepth + Alpha * market.Liquidity) \div One>>

(* C6 (as claimed): the estimator fields and the average depth take the    *)
(* new sample if and only if the final score does not exceed the ceiling.  *)
C6_BaselineUpdatedUnlessAboveCeiling ==
    AfterPoll =>
        \A id \in DOMAIN states :
            ScoredOnce(id) =>
                IF ScoreOf(id) <= Ceiling
                THEN Baseline(states[id]) = BaselineWith(prevStates[id], SampleOf(id))
                ELSE Baseline(states[id]) = Baseline(prevStates[id])

(* What the code does: the sample is taken if and only if the final score  *)
(* is strictly below the ceiling.                                          *)
BaselineUpdatedBelowCeiling ==
    AfterPoll =>
        \A id \in DOMAIN states :
            ScoredOnce(id) =>
                IF ScoreOf(id) < Ceiling
                THEN Baseline(states[id]) = BaselineWith(prevStates[id], SampleOf(id))
                ELSE Baseline(states[id]) = Baseline(prevStates[id])

ScoreAtCeiling ==
    AfterPoll /\ \E id \in DOMAIN states : ScoredOnce(id) /\ ScoreOf(id) = Ceiling

(* C8: the notification records change only in the delivery step of a      *)
(* cycle, and only when notifications are enabled, at least one group      *)
(* survived and the send succeeded.                                        *)
C8_RecordsChangeOnlyAfterSend ==
    [][notifiedMarkets' # notifiedMarkets =>
          /\ pc = "ranked"
          /\ telegramEnabled
          /\ Len(groups) > 0
          /\ sendResult' = "ok"
          /\ notifiedMarkets' = RecordNotified(notifiedMarkets, groups, now)]_vars

C8_Witness ==
    /\ pc = "done"
    /\ sendResult = "failed"
    /\ Len(groups) > 0
    /\ notifiedMarkets # EmptyMap

(* The series the store holds no row of although the state table holds a   *)
(* record of them.                                                         *)
Unbacked == DOMAIN states \ DOMAIN dbMarkets

(* C11 (as claimed): once the store has evicted a series that the fetched  *)
(* catalog no longer lists, the state table no longer holds the series, so *)
(* that no checkpoint tries to save it.                                    *)
C11_EvictedSeriesLeavesStateTable ==
    [][\A id \in DOMAIN dbMarkets :
          (id \notin DOMAIN dbMarkets' /\ \A i \in 1..Len(markets') : markets'[i].ID # id)
              => id \notin DOMAIN states']_vars

(* The store has evicted a series the catalog does not list; the state     *)
(* table still holds its record and a checkpoint has just gone over it.    *)
EvictedSeriesStillHeld ==
    /\ pc = "polled"
    /\ cycleCount % CheckpointInterval = 0
    /\ \E id \in Unbacked :
          /\ EntriesOf(id) = {}
          /\ states[id].WelfordCount > 0
          /\ id \notin DOMAIN dbStates

(* Every entry of the catalog for this series fails Market.Validate. *)
Rejected(id) ==
    /\ EntriesOf(id) # {}
    /\ \A i \in EntriesOf(id) : ~Validate(markets[i])

(* C13 (as claimed): a snapshot that fails validation never reaches the    *)
(* engine: no state record is created or updated for it and no alert or    *)
(* score is produced for it.                                               *)
C13_InvalidSnapshotNeverReachesEngine ==
    AfterPoll =>
        \A id \in CatalogIds : Rejected(id) =>
            /\ id \in DOMAIN states =>
                   id \in DOMAIN prevStates /\ states[id] = prevStates[id]
            /\ ScoredFor(id) = {}
            /\ AlertsFor(id) = {}

(* A snapshot the store refused was scored against the series' state.      *)
InvalidSnapshotScored ==
    /\ AfterPoll
    /\ \E id \in CatalogIds :
          /\ Rejected(id)
          /\ ScoredFor(id) # {}
          /\ id \in DOMAIN prevStates
          /\ states[id] # prevStates[id]

(* The number of times the last ProcessPoll wrote the record of a series:  *)
(* one cold start if it created the record, one per call of processMarket. *)
Mutations(id) ==
    Cardinality(ScoredFor(id))
        + (IF id \in DOMAIN states /\ id \notin DOMAIN prevStates THEN 1 ELSE 0)

(* C12 (as claimed): a series the catalog lists has its state record       *)
(* mutated exactly once by the ProcessPoll of that cycle.                  *)
C12_MutatedExactlyOncePerCycle ==
    AfterPoll =>
        \A id \in CatalogIds : EntriesOf(id) # {} => Mutations(id) = 1

(* A listed series that fails the volume gates: its record is not touched. *)
PresentSeriesNotMutated ==
    /\ AfterPoll
    /\ \E id \in CatalogIds :
          /\ EntriesOf(id) # {}
          /\ id \in DOMAIN prevStates
          /\ Mutations(id) = 0
          /\ states[id] = prevStates[id]

(* A series listed twice: its record is written twice in one cycle. *)
SeriesMutatedTwice ==
    /\ AfterPoll
    /\ \E id \in CatalogIds : Mutations(id) = 2

(* The step is a cycle that ended with a failed fetch. *)
CycleFailed == pc = "idle" /\ pc' = "done"

(* The step is the end of a cycle whose fetch succeeded. *)
CycleSucceeded == pc = "ranked" /\ pc' = "done"

(* C14: a cycle whose fetch fails leaves the state table, the notification *)
(* table and the cycle counter as they were, and writes no checkpoint.     *)
C14_FailedFetchChangesNothing ==
    [][CycleFailed =>
          UNCHANGED <<states, notifiedMarkets, cycleCount, dbStates>>]_vars

(* A fetch has failed while both tables held entries. *)
C14_Witness ==
    /\ pc = "done"
    /\ markets = <<>>
    /\ consecutiveFailures > 0
    /\ states # EmptyMap
    /\ notifiedMarkets # EmptyMap

(* C15 (as claimed): a cycle whose delivery failed is a failed cycle: the  *)
(* failure is counted in consecutiveFailures.                              *)
C15_DeliveryFailureIsCounted ==
    (pc = "done" /\ sendResult = "failed") => consecutiveFailures > 0

(* A cycle whose Send failed has ended and the failure counter is zero.    *)
DeliveryFailureNotCounted ==
    /\ pc = "done"
    /\ sendResult = "failed"
    /\ Len(groups) > 0
    /\ consecutiveFailures = 0

(* C16: the error notice goes out for the first failure of a run of        *)
(* failures and for no other cycle; the recovery notice goes out on the    *)
(* first success after N >= 1 failures, for no other cycle, and reports N; *)
(* the failure counter is zero after every success.  (Notices are sent     *)
(* only when Telegram is enabled.)                                         *)
C16_NoticesFollowFailureRuns ==
    [][/\ CycleFailed =>
             /\ consecutiveFailures' = consecutiveFailures + 1
             /\ notice' = IF telegramEnabled /\ consecutiveFailures = 0
                          THEN [kind |-> "error", n |-> 0] ELSE NoNotice
       /\ CycleSucceeded =>
             /\ consecutiveFailures' = 0
             /\ notice' = IF telegramEnabled /\ consecutiveFailures >= 1
                          THEN [kind |-> "recovery", n |-> consecutiveFailures]
                          ELSE NoNotice
       /\ ~(CycleFailed \/ CycleSucceeded) =>
             notice' = NoNotice \/ notice' = notice]_vars

(* A recovery after two failed cycles. *)
C16_Witness ==
    /\ pc = "done"
    /\ notice = [kind |-> "recovery", n |-> 2]
    /\ consecutiveFailures = 0

(* The series has been cold-started (or loaded with at least one sample). *)
Initialized(state) == state.WelfordCount >= 1

(* The record of id was as its cold start left it, the catalog lists id    *)
(* once, and its sample, equal to the cold-start sample, was accepted: the *)
(* series has the two samples p0, p0, of sample standard deviation zero.   *)
ConstantPair(id) ==
    /\ Cardinality(EntriesOf(id)) = 1
    /\ id \in DOMAIN prevStates
    /\ prevStates[id].WelfordCount = 1
    /\ prevStates[id].TCBuffer = <<>>
    /\ states[id].WelfordCount = 2
    /\ \A i \in EntriesOf(id) : markets[i].YesProbability = prevStates[id].LastPrice

(* The noise estimate of every initialized series, computed and stored, is *)
(* at least the floor, and the fallback below two samples.                 *)
NoiseEstimateAtLeastFloor ==
    \A id \in DOMAIN states : Initialized(states[id]) =>
        /\ GetSigma(states[id]) >= Delta
        /\ GetSigma(states[id]) > 0
        /\ states[id].LastSigma >= Delta
        /\ states[id].LastSigma > 0
        /\ states[id].WelfordCount < 2 =>
               /\ GetSigma(states[id]) = SigmaFallback
               /\ states[id].LastSigma = SigmaFallback

(* C20 (as claimed): the noise estimate of an initialized series is never  *)
(* below the floor and never zero, is the fallback while fewer than two    *)
(* samples have been accepted, and is the floor when the sample standard   *)
(* deviation of the accepted samples is below the floor.                   *)
C20_NoiseEstimateFloor ==
    /\ NoiseEstimateAtLeastFloor
    /\ AfterPoll =>
           \A id \in CatalogIds : ConstantPair(id) =>
               /\ GetSigma(states[id]) = Delta
               /\ states[id].LastSigma = Delta

(* A series held constant over its first two samples has a noise estimate  *)
(* above the floor.                                                        *)
ConstantSeriesAboveFloor ==
    /\ AfterPoll
    /\ \E id \in CatalogIds :
          /\ ConstantPair(id)
          /\ states[id].LastSigma > Delta
          /\ states[id].LastSigma = GetSigma(states[id])

(* The contents the claim gives the alert of sample market, scored against *)
(* the record state the series had when the cycle began.                   *)
ContentsFrom(a, state, market) ==
    /\ a.OldProb = state.LastPrice
    /\ a.NewProb = market.YesProbability
    /\ a.PriceDelta = Abs(market.YesProbability - state.LastPrice)
    /\ a.VolumeDelta = Max(0, market.Volume24hr - state.LastVolume)

(* The record of a series keeps the probability and the 24h volume of the  *)
(* sample of the last cycle that processed it: a cycle that processes the  *)
(* one entry of the series stores both, a cycle that does not process the  *)
(* series leaves its record as it was.                                     *)
RecordKeepsLastSample ==
    AfterPoll =>
        /\ \A i \in 1..Len(markets) :
              (shouldProcessMarket(markets[i])
               /\ Cardinality(EntriesOf(markets[i].ID)) = 1) =>
                  /\ states[markets[i].ID].LastPrice = markets[i].YesProbability
                  /\ states[markets[i].ID].LastVolume = markets[i].Volume24hr
        /\ \A id \in DOMAIN prevStates :
              (\A i \in EntriesOf(id) : ~shouldProcessMarket(markets[i])) =>
                  states[id] = prevStates[id]

(* C30 (as claimed): an alert emitted for a series in a cycle carries as   *)
(* old probability the probability of the series in its previous processed *)
(* cycle, as new probability the probability of the current sample, as     *)
(* probability delta the absolute difference of the two and as volume      *)
(* delta the current 24h volume less the volume of the previous processed  *)
(* cycle, floored at zero.                                                 *)
C30_AlertCarriesPreviousCycle ==
    /\ RecordKeepsLastSample
    /\ AfterPoll =>
          \A k \in 1..Len(alerts) :
              /\ alerts[k].MarketID \in DOMAIN prevStates
              /\ prevStates[alerts[k].MarketID].WelfordCount > 0
              /\ \E i \in EntriesOf(alerts[k].MarketID) :
                    ContentsFrom(alerts[k], prevStates[alerts[k].MarketID], markets[i])

(* An alert whose old probability and volume delta come from another entry *)
(* of the same catalog: the series has a record from an earlier cycle, and *)
(* the alert agrees with that record for no entry of the series.           *)
AlertAgainstSameCycle ==
    /\ AfterPoll
    /\ \E k \in 1..Len(alerts) :
          /\ alerts[k].MarketID \in DOMAIN prevStates
          /\ prevStates[alerts[k].MarketID].WelfordCount > 0
          /\ \A i \in EntriesOf(alerts[k].MarketID) :
                ~ContentsFrom(alerts[k], prevStates[alerts[k].MarketID], markets[i])
          /\ \E i \in EntriesOf(alerts[k].MarketID) : \E j \in EntriesOf(alerts[k].MarketID) :
                /\ i < j
                /\ alerts[k].OldProb = markets[i].YesProbability
                /\ alerts[k].NewProb = markets[j].YesProbability

(* For the series a catalog lists once, the alert carries the contents the *)
(* claim gives.                                                            *)
AlertContentsSingleEntry ==
    AfterPoll =>
        \A k \in 1..Len(alerts) :
            Cardinality(EntriesOf(alerts[k].MarketID)) = 1 =>
                /\ alerts[k].MarketID \in DOMAIN prevStates
                /\ prevStates[alerts[k].MarketID].WelfordCount > 0
                /\ ContentsFrom(alerts[k], prevStates[alerts[k].MarketID],
                                SampleOf(alerts[k].MarketID))

(* An alert of a series listed once, with a volume that went down: the     *)
(* volume delta is zero.                                                   *)
AlertWithVolumeFloored ==
    /\ AfterPoll
    /\ \E k \in 1..Len(alerts) :
          /\ Cardinality(EntriesOf(alerts[k].MarketID)) = 1
          /\ alerts[k].MarketID \in DOMAIN prevStates
          /\ SampleOf(alerts[k].MarketID).Volume24hr
                < prevStates[alerts[k].MarketID].LastVolume
          /\ alerts[k].VolumeDelta = 0

(* C31: a sample whose probability is the one last observed for its series *)
(* raises no alert: its divergence, its energy and its final score are     *)
(* zero whatever the volume, the depth and the sum of the trajectory       *)
(* buffer are, and zero is above no positive threshold; a series listed    *)
(* once with its probability unchanged has no alert in the cycle.          *)
C31_UnchangedProbabilityNeverAlerts ==
    AfterPoll =>
        /\ \A k \in 1..Len(scored) :
              scored[k].OldProb = scored[k].NewProb =>
                  /\ scored[k].HellingerDist = 0
                  /\ scored[k].InstEnergy = 0
                  /\ scored[k].FinalScore = 0
                  /\ ~scored[k].IsAlert
        /\ \A k \in 1..Len(alerts) : alerts[k].OldProb # alerts[k].NewProb
        /\ \A i \in 1..Len(markets) :
              (/\ EntriesOf(markets[i].ID) = {i}
               /\ markets[i].ID \in DOMAIN prevStates
               /\ prevStates[markets[i].ID].LastPrice = markets[i].YesProbability) =>
                  AlertsFor(markets[i].ID) = {}

(* An unchanged sample of a series listed once was scored while the        *)
(* trajectory buffer of the series held the energy of an earlier move, the *)
(* sum of the buffer being above the threshold, and with volume on the     *)
(* market.                                                                 *)
C31_Witness ==
    /\ pc = "polled"
    /\ \E k \in 1..Len(scored) :
          /\ EntriesOf(scored[k].MarketID) # {}
          /\ \A i \in EntriesOf(scored[k].MarketID) :
                /\ EntriesOf(scored[k].MarketID) = {i}
                /\ markets[i].Volume24hr > 0
          /\ scored[k].OldProb = scored[k].NewProb
          /\ scored[k].TC > Threshold
          /\ scored[k].LiqPressure > 0
          /\ scored[k].FinalScore = 0

(* The count of every record the table holds is at least 1, and no poll    *)
(* lowers the count of a record.                                           *)
CountNeverFalls ==
    AfterPoll =>
        /\ \A id \in DOMAIN states : states[id].WelfordCount >= 1
        /\ \A id \in DOMAIN prevStates :
              /\ id \in DOMAIN states
              /\ states[id].WelfordCount >= prevStates[id].WelfordCount
              /\ states[id].WelfordCount <= prevStates[id].WelfordCount
                                              + Cardinality(EntriesOf(id))

(* The catalog lists id once and the poll made its record: the series has  *)
(* the sample p0 and no other.                                             *)
JustColdStarted(id) ==
    /\ Cardinality(EntriesOf(id)) = 1
    /\ id \notin DOMAIN prevStates
    /\ id \in DOMAIN states

(* The record of id was as its cold start left it, the catalog lists id    *)
(* once and its sample was accepted: the series has the samples p0, p1.    *)
FirstAccepted(id) ==
    /\ Cardinality(EntriesOf(id)) = 1
    /\ id \in DOMAIN prevStates
    /\ prevStates[id].WelfordCount = 1
    /\ prevStates[id].TCBuffer = <<>>
    /\ states[id].WelfordCount = 2

(* C34 (as claimed): after a cold start with probability p0 and k accepted *)
(* samples the count of the estimator is k + 1, never below 1 and never    *)
(* decreasing, and its running mean is the arithmetic mean of p0 and the k *)
(* samples; stated for k = 0 and k = 1.                                    *)
C34_MeanOfColdStartAndSamples ==
    /\ CountNeverFalls
    /\ AfterPoll =>
          \A id \in CatalogIds :
              /\ JustColdStarted(id) =>
                    /\ states[id].WelfordCount = 1
                    /\ states[id].WelfordMean = states[id].LastPrice
              /\ FirstAccepted(id) =>
                    Abs(2 * states[id].WelfordMean
                        - (prevStates[id].LastPrice + states[id].LastPrice)) <= 1

(* A cold start from the probability one half left the running mean at 0.  *)
MeanZeroAfterColdStart ==
    /\ AfterPoll
    /\ JustColdStarted(IdA1)
    /\ states[IdA1].WelfordCount = 1
    /\ states[IdA1].LastPrice = One \div 2
    /\ states[IdA1].WelfordMean = 0

(* After the cold start and one accepted sample the running mean is half   *)
(* the sample, whatever the cold start probability was.                    *)
MeanIgnoresColdStartSample ==
    /\ AfterPoll
    /\ FirstAccepted(IdA1)
    /\ prevStates[IdA1].LastPrice # 0
    /\ states[IdA1].WelfordMean = states[IdA1].LastPrice \div 2

(* The running mean after the first accepted sample is always half the     *)
(* sample.                                                                 *)
MeanIsHalfFirstSample ==
    AfterPoll =>
        \A id \in CatalogIds : FirstAccepted(id) =>
            states[id].WelfordMean = states[id].LastPrice \div 2

(* The energy of a scored sample with the sign of its move. *)
SignedEnergy(a) ==
    a.InstEnergy * (IF a.NewProb < a.OldProb THEN -1
                    ELSE IF a.NewProb = a.OldProb THEN 0 ELSE 1)

(* The buffer new is the buffer old after the value v was written into the *)
(* slot at idx, or appended while the buffer was not full.                 *)
WrittenInto(old, idx, new, v) ==
    IF Len(old) < WindowSize
    THEN new = Append(old, v)
    ELSE /\ Len(new) = Len(old)
         /\ new[idx + 1] = v
         /\ \A j \in 1..Len(old) : j # idx + 1 => new[j] = old[j]

(* The sample of the single entry of id was scored at or above the         *)
(* ceiling.                                                                *)
ExcludedByCeiling(id) ==
    /\ Cardinality(EntriesOf(id)) = 1
    /\ id \in DOMAIN prevStates
    /\ Cardinality(ScoredFor(id)) = 1
    /\ \A k \in ScoredFor(id) : scored[k].FinalScore >= Ceiling

(* C35: a sample the ceiling guard keeps out of the baseline is still      *)
(* recorded as the latest observation: the last probability and the last   *)
(* volume of the series are those of the sample and its signed energy is   *)
(* written into the trajectory buffer; the old probability of a scored     *)
(* sample is the last probability of the record, so the next cycle is      *)
(* scored against the excluded sample.                                     *)
C35_ExcludedSampleIsRecorded ==
    AfterPoll =>
        \A id \in CatalogIds :
            /\ ExcludedByCeiling(id) =>
                  \A i \in EntriesOf(id), k \in ScoredFor(id) :
                      /\ states[id].LastPrice = markets[i].YesProbability
                      /\ states[id].LastVolume = markets[i].Volume24hr
                      /\ scored[k].NewProb = markets[i].YesProbability
                      /\ WrittenInto(prevStates[id].TCBuffer, prevStates[id].TCIndex,
                                     states[id].TCBuffer, SignedEnergy(scored[k]))
                      /\ states[id].TCIndex = (prevStates[id].TCIndex + 1) % WindowSize
                      /\ states[id].WelfordCount = prevStates[id].WelfordCount
                      /\ states[id].WelfordMean = prevStates[id].WelfordMean
                      /\ states[id].WelfordM2 = prevStates[id].WelfordM2
                      /\ states[id].AvgDepth = prevStates[id].AvgDepth
            /\ (Cardinality(EntriesOf(id)) = 1 /\ id \in DOMAIN prevStates) =>
                  \A k \in ScoredFor(id) : scored[k].OldProb = prevStates[id].LastPrice

(* A sample scored at or above the ceiling left its probability, its       *)
(* volume and its energy in the record.                                    *)
C35_Witness ==
    /\ AfterPoll
    /\ ExcludedByCeiling(IdA1)
    /\ \A k \in ScoredFor(IdA1) :
          /\ scored[k].OldProb # scored[k].NewProb
          /\ SignedEnergy(scored[k]) < 0
          /\ states[IdA1].LastPrice = scored[k].NewProb
    /\ states[IdA1].LastVolume # prevStates[IdA1].LastVolume

(* A sample was scored against a sample the ceiling guard had excluded:    *)
(* the record had been scored once and never accepted a sample.            *)
ScoredAgainstExcludedSample ==
    /\ AfterPoll
    /\ Cardinality(EntriesOf(IdA1)) = 1
    /\ IdA1 \in DOMAIN prevStates
    /\ prevStates[IdA1].WelfordCount = 1
    /\ Len(prevStates[IdA1].TCBuffer) = 1
    /\ prevStates[IdA1].TCBuffer[1] # 0
    /\ \E k \in ScoredFor(IdA1) :
          /\ scored[k].OldProb = prevStates[IdA1].LastPrice
          /\ scored[k].OldProb # scored[k].NewProb

(* The delivery step of a cycle with groups to send did not send them. *)
NotDelivered ==
    /\ pc = "ranked"
    /\ Len(groups) > 0
    /\ sendResult' \in {"failed", "disabled"}

C38_Step ==
    /\ NotDelivered =>
          /\ states' = states
          /\ notifiedMarkets' = notifiedMarkets
          /\ \A a \in MembersOfGroups(groups) :
                Cardinality(EntriesOf(a.MarketID)) = 1 =>
                    /\ states[a.MarketID].LastPrice = a.NewProb
                    /\ states[a.MarketID].UpdatedAt = now
    /\ pc = "fetched" =>
          \A i \in 1..Len(markets) :
              (/\ EntriesOf(markets[i].ID) = {i}
               /\ markets[i].ID \in DOMAIN states
               /\ states[markets[i].ID].LastPrice = markets[i].YesProbability) =>
                  \A k \in 1..Len(alerts') : alerts'[k].MarketID # markets[i].ID
    /\ notifiedMarkets' # notifiedMarkets => sendResult' = "ok"

(* C38: alerts are delivered at most once: when the delivery of the groups *)
(* of a cycle fails, or notifications are disabled, the records of the     *)
(* series already hold the new samples and no notification record is       *)
(* written; a following cycle in which the probability of such a series is *)
(* unchanged returns no alert for it, so the move is not notified.         *)
C38_UndeliveredAlertIsNotRepeated == [][C38_Step]_vars

(* The cycle after a failed delivery of an alert of a:1, the only series   *)
(* seen so far: the probability is unchanged, no alert is returned, and    *)
(* nothing was ever notified.                                              *)
C38_Witness ==
    /\ pc = "polled"
    /\ sendResult = "failed"
    /\ DOMAIN prevStates = {IdA1}
    /\ Len(markets) = 1
    /\ markets[1].ID = IdA1
    /\ markets[1].YesProbability = prevStates[IdA1].LastPrice
    /\ Len(scored) = 1
    /\ cycleCount = 3
    /\ Len(prevStates[IdA1].TCBuffer) = 1
    /\ prevStates[IdA1].TCBuffer[1] # 0
    /\ alerts = <<>>
    /\ notifiedMarkets = EmptyMap

(* The same after a cycle whose groups were not sent because notifications *)
(* are disabled.                                                           *)
UndeliveredWhenDisabled ==
    /\ pc = "polled"
    /\ sendResult = "disabled"
    /\ DOMAIN prevStates = {IdA1}
    /\ Len(markets) = 1
    /\ markets[1].ID = IdA1
    /\ markets[1].YesProbability = prevStates[IdA1].LastPrice
    /\ alerts = <<>>
    /\ notifiedMarkets = EmptyMap

----------------------------------------------------------------------------
(* PostProcessAlerts on its own: any list of candidate alerts against any  *)
(* notification-record table.  The alerts are such as ProcessPoll returns  *)
(* (a final score above the threshold, a changed probability); a record is *)
(* such as RecordNotified writes.                                          *)

CandidateAlert(id, oldProb, newProb, score) ==
    [MarketID |-> id, FinalScore |-> score, IsAlert |-> TRUE,
     HellingerDist |-> Hellinger(oldProb, newProb), LiqPressure |-> One,
     InstEnergy |-> score, TC |-> ScoreOne,
     OldProb |-> oldProb, NewProb |-> newProb,
     PriceDelta |-> Abs(newProb - oldProb), VolumeDelta |-> 0, Depth |-> 0,
     DetectedAt |-> 0]

AlertIds == <<IdA1, IdA2, IdB1, IdC1>>

Moves == {<<500, 600>>, <<600, 500>>, <<850, 950>>}

Scores == {400, 500, 600}

(* Only the series with a notification record needs more than one move.   *)
MovesOf(id) == IF id = IdA1 THEN Moves ELSE {<<500, 600>>}

NoAlert == <<>>

AlertChoices(id) == {NoAlert} \cup {<<m[1], m[2], sc>> : m \in MovesOf(id), sc \in Scores}

RECURSIVE AlertsOfChoice(_, _)
AlertsOfChoice(f, i) ==
    IF i > Len(AlertIds) THEN <<>>
    ELSE (IF f[i] = NoAlert THEN <<>>
          ELSE <<CandidateAlert(AlertIds[i], f[i][1], f[i][2], f[i][3])>>)
         \o AlertsOfChoice(f, i + 1)

AlertInputs ==
    {AlertsOfChoice(f, 1) :
        f \in {g \in [1..Len(AlertIds) -> UNION {AlertChoices(AlertIds[i]) : i \in 1..Len(AlertIds)}] :
                  /\ \A i \in 1..Len(AlertIds) : g[i] \in AlertChoices(AlertIds[i])
                  /\ Cardinality({i \in 1..Len(AlertIds) : g[i] # NoAlert}) <= MaxAlerts}}

RecordTables ==
    {EmptyMap} \cup
    {(IdA1 :> [Direction |-> d, NewProb |-> p, SentAt |-> 0]) :
        d \in {"increase", "decrease"}, p \in {600, 950}}

InitPP ==
    /\ states = EmptyMap
    /\ notifiedMarkets \in RecordTables
    /\ cycleCount = 0
    /\ dbStates = EmptyMap
    /\ now \in 0..MaxElapsed
    /\ telegramEnabled = TRUE
    /\ pc = "pp"
    /\ markets = <<>>
    /\ alerts = <<>>
    /\ ranked = <<>>
    /\ groups = <<>>
    /\ scored = <<>>
    /\ prevStates = EmptyMap
    /\ sendResult = "none"
    /\ consecutiveFailures = 0
    /\ cyclesRun = 0
    /\ pollIdx = 0
    /\ pollPhase = "none"
    /\ hpc = "waiting"
    /\ ckTodo = {}
    /\ ctxDone = FALSE
    /\ shutdownSaved = {}
    /\ twin = NoTwin
    /\ dbMarkets = EmptyMap
    /\ maxMarkets = MaxEvents
    /\ notice = NoNotice
    /\ storeCall = NoCall
    /\ pushed = NoPushes
    /\ request = NoRequest

(* groups := mon.PostProcessAlerts(alerts, pollInterval) *)
RunPostProcess ==
    /\ pc = "pp"
    /\ \E as \in AlertInputs :
          /\ alerts' = as
          /\ \E r \in PostProcessAlerts(notifiedMarkets, as, PollInterval, now) :
                /\ ranked' = r.ranked
                /\ groups' = r.groups
    /\ pc' = "ppdone"
    /\ UNCHANGED <<states, cycleCount, dbStates, scored, prevStates,
                   notifiedMarkets, now, telegramEnabled, markets, sendResult,
                   consecutiveFailures, cyclesRun, handlerVars, twin, auxVars>>

NextPP == RunPostProcess

SpecPP == InitPP /\ [][NextPP]_vars

(* C2: an alert of the ranked list is dropped by the cooldown filter if    *)
(* and only if a record exists for its series, the record was sent less    *)
(* than the cooldown ago, the alert moves in the recorded direction, and   *)
(* the alert does not enter the zone (> 0.90 or < 0.10) from a record      *)
(* outside it.                                                             *)
C2_SuppressedIffCooldownApplies ==
    pc = "ppdone" =>
        \A a \in MembersOfGroups(ranked) :
            LET hasRecord == a.MarketID \in DOMAIN notifiedMarkets
                rec == notifiedMarkets[a.MarketID]
                within == now - rec.SentAt < CooldownMultiplier * PollInterval
                dir == IF a.NewProb > a.OldProb THEN "increase"
                       ELSE IF a.NewProb < a.OldProb THEN "decrease"
                       ELSE "no_change"
                inZone == a.NewProb > 900 \/ a.NewProb < 100
                recInZone == rec.NewProb > 900 \/ rec.NewProb < 100
            IN  (a \notin MembersOfGroups(groups)) <=>
                    (hasRecord /\ within /\ dir = rec.Direction
                               /\ ~(inZone /\ ~recInZone))

(* An alert that repeats the recorded direction inside the cooldown and    *)
(* enters the zone from a record outside it is kept, next to a ranked      *)
(* list some alert of which is dropped in another run.                     *)
C2_Witness ==
    /\ pc = "ppdone"
    /\ \E a \in MembersOfGroups(ranked) :
          /\ a.MarketID \in DOMAIN notifiedMarkets
          /\ now - notifiedMarkets[a.MarketID].SentAt < CooldownMultiplier * PollInterval
          /\ notifiedMarkets[a.MarketID].Direction = "increase"
          /\ a.NewProb > a.OldProb
          /\ a.NewProb > 900
          /\ notifiedMarkets[a.MarketID].NewProb <= 900
          /\ a \in MembersOfGroups(groups)

C2_WitnessSuppressed ==
    /\ pc = "ppdone"
    /\ \E a \in MembersOfGroups(ranked) : a \notin MembersOfGroups(groups)

(* C3 (as claimed): the list PostProcessAlerts returns is ordered by       *)
(* BestScore descending.                                                   *)
C3_ResultOrderedByBestScore == pc = "ppdone" => BestDescending(groups)

(* The ranked list, before the cooldown filter, is ordered. *)
RankedOrderedByBestScore == pc = "ppdone" => BestDescending(ranked)

(* C4: PostProcessAlerts returns at most TopK groups: the ranked list is   *)
(* cut to TopK and the cooldown filter only removes groups from it.        *)
C4_AtMostTopK ==
    pc = "ppdone" =>
        /\ Len(ranked) <= TopK
        /\ Len(groups) <= Len(ranked)
        /\ \A i \in 1..Len(groups) :
              \E j \in 1..Len(ranked) : groups[i].EventID = ranked[j].EventID

C4_Witness ==
    /\ pc = "ppdone"
    /\ Cardinality({extractEventID(alerts[i].MarketID) : i \in 1..Len(alerts)}) > TopK
    /\ Len(groups) = TopK

(* The cooldown PostProcessAlerts passes to FilterRecentlySent. *)
Cooldown == CooldownMultiplier * PollInterval

EventsOf(gs) == {gs[i].EventID : i \in 1..Len(gs)}

AlertEvents == {extractEventID(alerts[i].MarketID) : i \in 1..Len(alerts)}

(* The alerts of event e among the candidate alerts. *)
AlertsOfEvent(e) ==
    {alerts[i] : i \in {j \in 1..Len(alerts) : extractEventID(alerts[j].MarketID) = e}}

SuppressedNow(a) == Suppressed(notifiedMarkets, a, Cooldown, now)

AllSuppressed(g) == \A j \in 1..Len(g.Markets) : SuppressedNow(g.Markets[j])

(* C21: the TopK groups are chosen before the cooldown filter and nothing  *)
(* takes the place of a group the filter drops: the ranked list holds      *)
(* min(TopK, number of events) groups, no event outside it has a better    *)
(* alert than a group inside it, a ranked group all of whose members are   *)
(* suppressed is absent from the result, and every group of the result is  *)
(* one of the ranked list.                                                 *)
C21_NoBackfillAfterTopK ==
    pc = "ppdone" =>
        /\ Len(ranked) = Min(TopK, Cardinality(AlertEvents))
        /\ EventsOf(ranked) \subseteq AlertEvents
        /\ \A e \in AlertEvents \ EventsOf(ranked) :
              \A a \in AlertsOfEvent(e) : \A i \in 1..Len(ranked) :
                  a.FinalScore <= ranked[i].BestScore
        /\ \A i \in 1..Len(ranked) :
              AllSuppressed(ranked[i]) => ranked[i].EventID \notin EventsOf(groups)
        /\ EventsOf(groups) \subseteq EventsOf(ranked)

(* A group of the top TopK is dropped whole by the cooldown while an event *)
(* below the cut has an alert that no record suppresses: the result is     *)
(* shorter than TopK.                                                      *)
C21_Witness ==
    /\ pc = "ppdone"
    /\ \E i \in 1..Len(ranked) : AllSuppressed(ranked[i])
    /\ \E e \in AlertEvents \ EventsOf(ranked) :
          \E a \in AlertsOfEvent(e) : ~SuppressedNow(a)
    /\ Len(groups) < TopK

RECURSIVE Survivors(_)
Survivors(ms) ==
    IF ms = <<>> THEN <<>>
    ELSE (IF SuppressedNow(Head(ms)) THEN <<>> ELSE <<Head(ms)>>)
         \o Survivors(Tail(ms))

(* The ranked groups that keep a member, in their order. *)
RECURSIVE Surviving(_)
Surviving(gs) ==
    IF gs = <<>> THEN <<>>
    ELSE (IF AllSuppressed(Head(gs)) THEN <<>> ELSE <<Head(gs)>>)
         \o Surviving(Tail(gs))

(* C22: of the groups given to FilterRecentlySent, a group all of whose    *)
(* members are suppressed is absent from the result; every other group is  *)
(* in the result, in the same order, with exactly its members that are not *)
(* suppressed, in their order, and with a BestScore equal to the greatest  *)
(* FinalScore among them.                                                  *)
C22_GroupsKeepSurvivors ==
    pc = "ppdone" =>
        /\ Len(groups) = Len(Surviving(ranked))
        /\ \A i \in 1..Len(groups) :
              LET g == Surviving(ranked)[i]
              IN  /\ groups[i].EventID = g.EventID
                  /\ groups[i].Markets = Survivors(g.Markets)
                  /\ \A j \in 1..Len(groups[i].Markets) :
                        groups[i].Markets[j].FinalScore <= groups[i].BestScore
                  /\ \E j \in 1..Len(groups[i].Markets) :
                        groups[i].Markets[j].FinalScore = groups[i].BestScore

(* A group lost its best member, kept another one, and its BestScore went  *)
(* down to the score of the member it kept.                                *)
C22_Witness ==
    /\ pc = "ppdone"
    /\ \E i \in 1..Len(groups) : \E k \in 1..Len(ranked) :
          /\ ranked[k].EventID = groups[i].EventID
          /\ Len(groups[i].Markets) < Len(ranked[k].Markets)
          /\ groups[i].BestScore < ranked[k].BestScore

(* The lists of groups PostProcessAlerts can return for the alerts, the    *)
(* records and the clock of this call.                                     *)
PossibleResults ==
    {r.groups : r \in PostProcessAlerts(notifiedMarkets, alerts, PollInterval, now)}

(* C26 (as claimed): for given alerts, records and configuration           *)
(* PostProcessAlerts has one possible result: the returned list is the     *)
(* only list the call can return.                                          *)
C26_PostProcessDeterministic ==
    pc = "ppdone" => PossibleResults = {groups}

(* More events than TopK, the groups around the cut have equal BestScore,  *)
(* and another run of the same call returns other events.                  *)
TiedGroupsAtCut ==
    /\ pc = "ppdone"
    /\ Cardinality(AlertEvents) > TopK
    /\ \E other \in PossibleResults : EventsOf(other) # EventsOf(groups)

(* Without equal scores the call has one possible result. *)
DeterministicWithoutTies ==
    (/\ pc = "ppdone"
     /\ \A i \in 1..Len(alerts) : \A j \in 1..Len(alerts) :
           i # j => alerts[i].FinalScore # alerts[j].FinalScore)
        => PossibleResults = {groups}

----------------------------------------------------------------------------
(* GroupByEvent on its own, over alerts for markets as FetchEvents builds *)
(* them from a parent event and one of its markets.                        *)

(* compositeID := pe.ID + ":" + market.ID *)
compositeID(eventID, marketID) == eventID \o <<":">> \o marketID

(* The fields of models.Market that carry the identifiers. *)
FetchedMarket(eventID, marketID) ==
    [ID |-> compositeID(eventID, marketID), EventID |-> eventID,
     MarketID |-> marketID]

(* Parent events and markets of the upstream answer: the identifiers are   *)
(* strings of the JSON document, taken as they come.                       *)
Upstream ==
    <<FetchedMarket(<<"a">>, <<"1">>), FetchedMarket(<<"a">>, <<"2">>),
      FetchedMarket(<<"b">>, <<"1">>), FetchedMarket(<<"a">>, <<"1", ":", "2">>)>>

(* The score of the alert of each upstream market, 0 for none. *)
GroupChoices == {0} \cup Scores

RECURSIVE PickMarkets(_, _)
PickMarkets(f, i) ==
    IF i > Len(Upstream) THEN <<>>
    ELSE (IF f[i] = 0 THEN <<>> ELSE <<Upstream[i]>>) \o PickMarkets(f, i + 1)

RECURSIVE PickAlerts(_, _)
PickAlerts(f, i) ==
    IF i > Len(Upstream) THEN <<>>
    ELSE (IF f[i] = 0 THEN <<>>
          ELSE <<CandidateAlert(Upstream[i].ID, 500, 600, f[i])>>)
         \o PickAlerts(f, i + 1)

GroupInputs ==
    {f \in [1..Len(Upstream) -> GroupChoices] :
        /\ \E i \in 1..Len(Upstream) : f[i] # 0
        /\ Cardinality({i \in 1..Len(Upstream) : f[i] # 0}) <= MaxAlerts}

InitGroup ==
    /\ states = EmptyMap
    /\ notifiedMarkets = EmptyMap
    /\ cycleCount = 0
    /\ dbStates = EmptyMap
    /\ now = 0
    /\ telegramEnabled = TRUE
    /\ pc = "group"
    /\ markets = <<>>
    /\ alerts = <<>>
    /\ ranked = <<>>
    /\ groups = <<>>
    /\ scored = <<>>
    /\ prevStates = EmptyMap
    /\ sendResult = "none"
    /\ consecutiveFailures = 0
    /\ cyclesRun = 0
    /\ pollIdx = 0
    /\ pollPhase = "none"
    /\ hpc = "waiting"
    /\ ckTodo = {}
    /\ ctxDone = FALSE
    /\ shutdownSaved = {}
    /\ twin = NoTwin
    /\ dbMarkets = EmptyMap
    /\ maxMarkets = MaxEvents
    /\ notice = NoNotice
    /\ storeCall = NoCall
    /\ pushed = NoPushes
    /\ request = NoRequest

(* groups := mon.GroupByEvent(alerts), alerts[i] being an alert for        *)
(* markets[i].                                                             *)
RunGroupByEvent ==
    /\ pc = "group"
    /\ \E f \in GroupInputs :
          /\ markets' = PickMarkets(f, 1)
          /\ alerts' = PickAlerts(f, 1)
          /\ groups' \in GroupByEvent(PickAlerts(f, 1))
    /\ pc' = "grouped"
    /\ UNCHANGED <<states, cycleCount, dbStates, scored, prevStates, ranked,
                   notifiedMarkets, now, telegramEnabled, sendResult,
                   consecutiveFailures, cyclesRun, handlerVars, twin, auxVars>>

NextGroup == RunGroupByEvent

SpecGroup == InitGroup /\ [][NextGroup]_vars

(* The positions <<group, member>> at which alert a stands in the groups. *)
PlacesOf(a) ==
    {<<k, j>> \in (1..Len(groups)) \X (1..MaxAlerts) :
        j <= Len(groups[k].Markets) /\ groups[k].Markets[j] = a}

RECURSIVE MemberCount(_)
MemberCount(gs) ==
    IF gs = <<>> THEN 0 ELSE Len(Head(gs).Markets) + MemberCount(Tail(gs))

(* The groups partition the alerts by the identifier up to the last colon; *)
(* members are in descending FinalScore; BestScore is the greatest.        *)
GroupsPartitionAlerts ==
    pc = "grouped" =>
        /\ MemberCount(groups) = Len(alerts)
        /\ \A i \in 1..Len(alerts) :
              /\ Cardinality(PlacesOf(alerts[i])) = 1
              /\ \A pl \in PlacesOf(alerts[i]) :
                    groups[pl[1]].EventID = extractEventID(alerts[i].MarketID)
        /\ \A k \in 1..Len(groups) :
              /\ \A l \in 1..Len(groups) : groups[k].EventID = groups[l].EventID => k = l
              /\ ScoreDescending(groups[k].Markets)
              /\ \A j \in 1..Len(groups[k].Markets) :
                    groups[k].Markets[j].FinalScore <= groups[k].BestScore
              /\ \E j \in 1..Len(groups[k].Markets) :
                    groups[k].Markets[j].FinalScore = groups[k].BestScore

(* C23 (as claimed): GroupByEvent partitions the alerts, every alert being *)
(* in exactly one group; the EventID of that group is the alert's          *)
(* composite identifier without its last ':' and what follows it, and is   *)
(* the identifier of the parent event the composite was built from; the    *)
(* members of a group are in descending FinalScore and its BestScore is    *)
(* the greatest FinalScore among them.                                     *)
C23_GroupIsParentEvent ==
    /\ GroupsPartitionAlerts
    /\ pc = "grouped" =>
          \A i \in 1..Len(alerts) : \A pl \in PlacesOf(alerts[i]) :
              groups[pl[1]].EventID = markets[i].EventID

(* An alert stands in a group whose EventID is not its parent event. *)
GroupedUnderOtherEvent ==
    /\ pc = "grouped"
    /\ \E i \in 1..Len(alerts) : \E pl \in PlacesOf(alerts[i]) :
          /\ alerts[i].MarketID = markets[i].ID
          /\ groups[pl[1]].EventID # markets[i].EventID

HasColon(s) == \E i \in 1..Len(s) : s[i] = ":"

(* For a market whose own identifier holds no colon the group is the       *)
(* parent event.                                                           *)
ParentEventWithoutColon ==
    pc = "grouped" =>
        \A i \in 1..Len(alerts) : \A pl \in PlacesOf(alerts[i]) :
            ~HasColon(markets[i].MarketID) =>
                groups[pl[1]].EventID = markets[i].EventID

----------------------------------------------------------------------------
(* The eligibility gate: one ProcessPoll call on a catalog of one market   *)
(* whose flags and volumes lie on both sides of every gate.                *)

GateFlags == BOOLEAN \X BOOLEAN

GateVolumes ==
    {Volume24hrMin - 1, Volume24hrMin, Volume24hrMin + 1}
        \X {0, Volume1wkMin - 1, Volume1wkMin}
        \X {0, Volume1moMin - 1, Volume1moMin}

GateMarkets ==
    {[Market(IdA1, 600, v[1], v[2], v[3], 50) EXCEPT !.Active = f[1], !.Closed = f[2]] :
        f \in GateFlags, v \in GateVolumes}

(* The state table before the call: empty, or with the record the series   *)
(* got from an earlier sample.                                             *)
GateTables ==
    {EmptyMap,
     IdA1 :> ColdStart(NewState(IdA1), Market(IdA1, 500, Volume24hrMin, 0, 0, 50))}

InitGate ==
    /\ states \in GateTables
    /\ notifiedMarkets = EmptyMap
    /\ cycleCount = 0
    /\ dbStates = EmptyMap
    /\ now = 1
    /\ telegramEnabled = TRUE
    /\ pc = "gate"
    /\ markets \in {<<m>> : m \in GateMarkets}
    /\ alerts = <<>>
    /\ ranked = <<>>
    /\ groups = <<>>
    /\ scored = <<>>
    /\ prevStates = EmptyMap
    /\ sendResult = "none"
    /\ consecutiveFailures = 0
    /\ cyclesRun = 0
    /\ pollIdx = 0
    /\ pollPhase = "none"
    /\ hpc = "waiting"
    /\ ckTodo = {}
    /\ ctxDone = FALSE
    /\ shutdownSaved = {}
    /\ twin = NoTwin
    /\ dbMarkets = EmptyMap
    /\ maxMarkets = MaxEvents
    /\ notice = NoNotice
    /\ storeCall = NoCall
    /\ pushed = NoPushes
    /\ request = NoRequest

(* alerts, err := mon.ProcessPoll(markets) *)
GatePoll ==
    /\ pc = "gate"
    /\ \E r \in {ProcessPoll(states, cycleCount, dbMarkets, dbStates, markets, now)} :
          /\ states' = r.states
          /\ cycleCount' = r.cycleCount
          /\ dbStates' = r.dbStates
          /\ scored' = r.scored
          /\ alerts' = r.alerts
    /\ prevStates' = states
    /\ pc' = "gated"
    /\ UNCHANGED <<notifiedMarkets, now, telegramEnabled, markets, ranked, groups,
                   sendResult, consecutiveFailures, cyclesRun, handlerVars,
                   twin, auxVars>>

NextGate == GatePoll

SpecGate == InitGate /\ [][NextGate]_vars

(* The call took the market up: it created the record of the series from   *)
(* the sample, or scored the sample against the record.                    *)
Processed(market) ==
    \/ /\ market.ID \notin DOMAIN prevStates
       /\ market.ID \in DOMAIN states
       /\ states[market.ID].LastPrice = market.YesProbability
    \/ /\ market.ID \in DOMAIN prevStates
       /\ Len(scored) = 1
       /\ scored[1].MarketID = market.ID
       /\ states[market.ID].UpdatedAt = now

(* The call passed the market by: the table is as it was and nothing was   *)
(* scored.                                                                 *)
Skipped(market) ==
    /\ states = prevStates
    /\ scored = <<>>
    /\ alerts = <<>>

PassesGate(market) ==
    /\ market.Active
    /\ ~market.Closed
    /\ \/ market.Volume24hr >= Volume24hrMin
       \/ market.Volume1wk >= Volume1wkMin
       \/ market.Volume1mo >= Volume1moMin

(* C24: a series is processed in a cycle if and only if it is active, not  *)
(* closed, and at least one of its 24h, 1-week and 1-month volumes is at   *)
(* or above its configured minimum; otherwise the cycle passes it by.      *)
C24_ProcessedIffEligible ==
    pc = "gated" =>
        /\ Processed(markets[1]) <=> PassesGate(markets[1])
        /\ Skipped(markets[1]) <=> ~PassesGate(markets[1])

(* The entry is inactive, closed, or below each of the three minima. *)
Ineligible(market) ==
    \/ ~market.Active
    \/ market.Closed
    \/ /\ market.Volume24hr < Volume24hrMin
       /\ market.Volume1wk < Volume1wkMin
       /\ market.Volume1mo < Volume1moMin

(* C36: a skipped series leaves the state table unchanged: for an entry    *)
(* that is inactive, closed or below all volume minima, ProcessPoll makes  *)
(* no record, changes no field of the record the series has, so that its   *)
(* last probability is still that of its last processed cycle, and returns *)
(* no alert.                                                               *)
C36_SkippedSeriesUntouched ==
    (pc = "gated" /\ Ineligible(markets[1])) =>
        /\ DOMAIN states = DOMAIN prevStates
        /\ \A id \in DOMAIN prevStates : states[id] = prevStates[id]
        /\ markets[1].ID \in DOMAIN prevStates =>
               /\ states[markets[1].ID].LastPrice = prevStates[markets[1].ID].LastPrice
               /\ states[markets[1].ID].UpdatedAt = prevStates[markets[1].ID].UpdatedAt
        /\ alerts = <<>>
        /\ scored = <<>>

(* A closed market with all three volumes at their minima and a new        *)
(* probability was passed by: its record holds the earlier probability.    *)
C36_Witness ==
    /\ pc = "gated"
    /\ markets[1].Closed
    /\ markets[1].Active
    /\ markets[1].Volume24hr >= Volume24hrMin
    /\ markets[1].Volume1wk >= Volume1wkMin
    /\ markets[1].ID \in DOMAIN states
    /\ states[markets[1].ID].LastPrice # markets[1].YesProbability
    /\ states[markets[1].ID].UpdatedAt # now

(* A market below the 24h and the 1-month minimum was processed on its     *)
(* 1-week volume alone, standing exactly at the minimum.                   *)
C24_Witness ==
    /\ pc = "gated"
    /\ markets[1].Volume24hr < Volume24hrMin
    /\ markets[1].Volume1wk = Volume1wkMin
    /\ markets[1].Volume1mo < Volume1moMin
    /\ Processed(markets[1])
    /\ Len(scored) = 1

----------------------------------------------------------------------------
(* Two independent Monitors (monitor.New twice, as TestProcessPoll_        *)
(* Determinism does), each with its own store and its own readings of      *)
(* time.Now(), fed the same catalogs.  The second one is twin.             *)

TwinClocks == {0, 7}

InitDet ==
    /\ states = EmptyMap
    /\ notifiedMarkets = EmptyMap
    /\ cycleCount = 0
    /\ dbStates = EmptyMap
    /\ now = 0
    /\ telegramEnabled = FALSE
    /\ pc = "idle"
    /\ markets = <<>>
    /\ alerts = <<>>
    /\ ranked = <<>>
    /\ groups = <<>>
    /\ scored = <<>>
    /\ prevStates = EmptyMap
    /\ sendResult = "none"
    /\ consecutiveFailures = 0
    /\ cyclesRun = 0
    /\ pollIdx = 0
    /\ pollPhase = "none"
    /\ hpc = "waiting"
    /\ ckTodo = {}
    /\ ctxDone = FALSE
    /\ shutdownSaved = {}
    /\ \E t \in TwinClocks : twin = [NoTwin EXCEPT !.now = t]
    /\ dbMarkets = EmptyMap
    /\ maxMarkets = MaxEvents
    /\ notice = NoNotice
    /\ storeCall = NoCall
    /\ pushed = NoPushes
    /\ request = NoRequest

detFrame == <<notifiedMarkets, telegramEnabled, ranked, groups, sendResult,
              consecutiveFailures, handlerVars, auxVars>>

(* The next catalog of the sequence both Monitors are fed. *)
DetFetch ==
    /\ pc = "idle"
    /\ cyclesRun < MaxCycles
    /\ \E cat \in Catalogs : markets' = cat
    /\ pc' = "fetched"
    /\ cyclesRun' = cyclesRun + 1
    /\ UNCHANGED <<engineVars, now, twin, detFrame>>

(* alerts1 := m1.ProcessPoll(markets) *)
DetPoll ==
    /\ pc = "fetched"
    /\ \E r \in {ProcessPoll(states, cycleCount, dbMarkets, dbStates, markets, now)} :
           /\ states' = r.states
           /\ cycleCount' = r.cycleCount
           /\ dbStates' = r.dbStates
           /\ scored' = r.scored
           /\ alerts' = r.alerts
    /\ prevStates' = states
    /\ pc' = "polled"
    /\ UNCHANGED <<now, markets, cyclesRun, twin, detFrame>>

(* alerts2 := m2.ProcessPoll(markets) *)
DetPollTwin ==
    /\ pc \in {"fetched", "polled"}
    /\ ~twin.polled
    /\ \E r \in {ProcessPoll(twin.states, twin.cycleCount, EmptyMap, twin.dbStates,
                              markets, twin.now)} :
           twin' = [twin EXCEPT !.states = r.states,
                                !.cycleCount = r.cycleCount,
                                !.dbStates = r.dbStates,
                                !.scored = r.scored,
                                !.alerts = r.alerts,
                                !.polled = TRUE]
    /\ UNCHANGED <<engineVars, now, markets, pc, cyclesRun, detFrame>>

(* Both calls have returned; time passes on both clocks. *)
DetTick ==
    /\ pc = "polled"
    /\ twin.polled
    /\ pc' = "idle"
    /\ now' = now + PollInterval
    /\ twin' = [twin EXCEPT !.now = twin.now + PollInterval,
                            !.scored = <<>>,
                            !.alerts = <<>>,
                            !.polled = FALSE]
    /\ markets' = <<>>
    /\ alerts' = <<>>
    /\ scored' = <<>>
    /\ prevStates' = EmptyMap
    /\ UNCHANGED <<states, cycleCount, dbStates, cyclesRun, detFrame>>

NextDet == DetFetch \/ DetPoll \/ DetPollTwin \/ DetTick

SpecDet == InitDet /\ [][NextDet]_vars

SameSeriesAndScores(as1, as2) ==
    /\ Len(as1) = Len(as2)
    /\ \A i \in 1..Len(as1) :
          /\ as1[i].MarketID = as2[i].MarketID
          /\ as1[i].FinalScore = as2[i].FinalScore

(* C7: at every cycle, once both Monitors have processed the catalog, the  *)
(* two alert lists have the same length, the same series in the same       *)
(* places and the same final scores, and so have the scores computed for   *)
(* the samples that raised no alert.                                       *)
C7_TwinsAgree ==
    (pc = "polled" /\ twin.polled) =>
        /\ SameSeriesAndScores(alerts, twin.alerts)
        /\ SameSeriesAndScores(scored, twin.scored)

(* Both Monitors returned alerts in a later cycle while their clocks       *)
(* differ: the alerts differ in DetectedAt and in nothing the claim names. *)
C7_Witness ==
    /\ pc = "polled"
    /\ twin.polled
    /\ cyclesRun >= 2
    /\ twin.now # now
    /\ Len(alerts) > 0
    /\ Len(scored) > Len(alerts)
    /\ alerts # twin.alerts
    /\ states # twin.states

----------------------------------------------------------------------------
(* Shutdown.  main starts a goroutine that waits for SIGINT or SIGTERM,    *)
(* calls mon.Shutdown() and then cancel().  The goroutine runs beside the  *)
(* main goroutine; Monitor has no lock, so the steps of Shutdown's         *)
(* checkpoint interleave with the steps of a ProcessPoll in progress.      *)
(* ProcessPoll is taken one loop iteration at a time, and a scoring        *)
(* iteration in two steps: the call of processMarket, then the             *)
(* assignments that follow it.                                             *)

ShutdownSnapshots ==
    {Market(IdA1, 500, 100, 0, 0, 50), Market(IdA1, 400, 100, 0, 0, 100),
     Market(IdB1, 500, 100, 0, 0, 50), Market(IdB1, 400, 0, 0, 0, 100)}

ShutdownCatalogs == SeqsUpTo(ShutdownSnapshots, MaxCatalog)

cycleLocals == <<ranked, groups, sendResult>>

(* The ticker fired (or the initial cycle starts), the fetch succeeded,    *)
(* the fetched markets are stored and ProcessPoll is entered.              *)
SStart ==
    /\ pc = "idle"
    /\ ~ctxDone
    /\ cyclesRun < MaxCycles
    /\ \E cat \in ShutdownCatalogs :
          /\ markets' = cat
          /\ \E s \in StoreMarkets(dbMarkets, dbStates, maxMarkets, cat, 1, now) :
                /\ dbMarkets' = s.dbMarkets
                /\ dbStates' = s.dbStates
    /\ cyclesRun' = cyclesRun + 1
    /\ pc' = "polling"
    /\ pollIdx' = 1
    /\ pollPhase' = "top"
    /\ prevStates' = states
    /\ scored' = <<>>
    /\ alerts' = <<>>
    /\ UNCHANGED <<states, cycleCount, notifiedMarkets, now,
                   telegramEnabled, cycleLocals, consecutiveFailures, hpc,
                   ckTodo, ctxDone, shutdownSaved, twin, maxMarkets, notice,
                   unitVars>>

(* A cycle started with the context already cancelled: the request fails   *)
(* with the context's error and the cycle ends there.                      *)
SFetchCancelled ==
    /\ pc = "idle"
    /\ ctxDone
    /\ cyclesRun < MaxCycles
    /\ cyclesRun' = cyclesRun + 1
    /\ \E h \in {handleCycleResult(consecutiveFailures, TRUE, telegramEnabled)} :
           /\ consecutiveFailures' = h.consecutiveFailures
           /\ notice' = h.notice
    /\ pc' = "done"
    /\ UNCHANGED <<engineVars, notifiedMarkets, now, telegramEnabled, markets,
                   cycleLocals, handlerVars, twin, dbMarkets, maxMarkets,
                   unitVars>>

(* One loop iteration of ProcessPoll up to its continue, or up to the      *)
(* return of processMarket.                                                *)
SStep ==
    /\ pc = "polling"
    /\ pollPhase = "top"
    /\ pollIdx <= Len(markets)
    /\ LET market == markets[pollIdx]
           st1 == getOrCreateState(states, market.ID)
           state == st1[market.ID]
       IN  IF ~shouldProcessMarket(market)
           THEN /\ pollIdx' = pollIdx + 1
                /\ UNCHANGED <<states, scored, pollPhase>>
           ELSE IF state.WelfordCount = 0
           THEN /\ states' = [st1 EXCEPT ![market.ID] = ColdStart(state, market)]
                /\ pollIdx' = pollIdx + 1
                /\ UNCHANGED <<scored, pollPhase>>
           ELSE \E r \in {processMarket(state, market,
                                        VolumeDelta(state, market), now)} :
                    /\ states' = [st1 EXCEPT ![market.ID] = r.state]
                    /\ scored' = Append(scored, r.alert)
                    /\ pollPhase' = "scored"
                    /\ UNCHANGED pollIdx
    /\ UNCHANGED <<cycleCount, dbStates, prevStates, alerts, notifiedMarkets,
                   now, telegramEnabled, pc, markets, cycleLocals,
                   consecutiveFailures, cyclesRun, hpc, ckTodo, ctxDone,
                   shutdownSaved, twin, auxVars>>

(* The rest of a scoring iteration: LastPrice, LastVolume, LastSigma and   *)
(* UpdatedAt are assigned and the alert is appended.                       *)
SCommit ==
    /\ pc = "polling"
    /\ pollPhase = "scored"
    /\ LET market == markets[pollIdx]
           alert == scored[Len(scored)]
       IN  /\ states' = [states EXCEPT ![market.ID] =
                            CommitSample(states[market.ID], market, now)]
           /\ alerts' = IF alert.IsAlert THEN Append(alerts, alert) ELSE alerts
    /\ pollIdx' = pollIdx + 1
    /\ pollPhase' = "top"
    /\ UNCHANGED <<cycleCount, dbStates, prevStates, scored, notifiedMarkets,
                   now, telegramEnabled, pc, markets, cycleLocals,
                   consecutiveFailures, cyclesRun, hpc, ckTodo, ctxDone,
                   shutdownSaved, twin, auxVars>>

(* An end of ProcessPoll that checkpoints at every call. *)
SFinishEveryCall ==
    /\ pc = "polling"
    /\ pollPhase = "top"
    /\ pollIdx > Len(markets)
    /\ cycleCount' = cycleCount + 1
    /\ dbStates' = checkpoint(dbMarkets, states, dbStates)
    /\ pc' = "polled"
    /\ pollIdx' = 0
    /\ pollPhase' = "none"
    /\ UNCHANGED <<states, scored, prevStates, alerts, notifiedMarkets, now,
                   telegramEnabled, markets, cycleLocals, consecutiveFailures,
                   cyclesRun, hpc, ckTodo, ctxDone, shutdownSaved, twin, auxVars>>

(* The end of ProcessPoll: the cycle counter and the periodic checkpoint,  *)
(* which runs on the main goroutine.                                       *)
SFinish ==
    /\ pc = "polling"
    /\ pollPhase = "top"
    /\ pollIdx > Len(markets)
    /\ cycleCount' = cycleCount + 1
    /\ dbStates' = IF (cycleCount + 1) % CheckpointInterval = 0
                   THEN checkpoint(dbMarkets, states, dbStates) ELSE dbStates
    /\ pc' = "polled"
    /\ pollIdx' = 0
    /\ pollPhase' = "none"
    /\ UNCHANGED <<states, scored, prevStates, alerts, notifiedMarkets, now,
                   telegramEnabled, markets, cycleLocals, consecutiveFailures,
                   cyclesRun, hpc, ckTodo, ctxDone, shutdownSaved, twin, auxVars>>

(* The select of the main loop takes <-ctx.Done(): main returns and the    *)
(* process exits.                                                          *)
SExit ==
    /\ pc = "idle"
    /\ ctxDone
    /\ pc' = "exited"
    /\ UNCHANGED <<engineVars, notifiedMarkets, now, telegramEnabled, markets,
                   cycleLocals, consecutiveFailures, cyclesRun, handlerVars,
                   twin, auxVars>>

(* <-sigChan: the handler enters mon.Shutdown() and its checkpoint starts  *)
(* to range over m.states.                                                 *)
HSignal ==
    /\ hpc = "waiting"
    /\ pc \notin {"exited", "crashed"}
    /\ hpc' = "checkpoint"
    /\ ckTodo' = DOMAIN states
    /\ UNCHANGED <<engineVars, notifiedMarkets, now, telegramEnabled, pc,
                   markets, cycleLocals, consecutiveFailures, cyclesRun,
                   pollIdx, pollPhase, ctxDone, shutdownSaved, twin, auxVars>>

(* One iteration of the range of checkpoint: SaveState of one entry, read  *)
(* as it is at this moment.  The entries present when the range began are  *)
(* all visited; an entry added while it runs may be visited or not.  A     *)
(* SaveState that fails is logged and the range goes on.                   *)
HSave ==
    /\ hpc = "checkpoint"
    /\ pc # "crashed"
    /\ \E id \in DOMAIN states \ shutdownSaved :
          /\ dbStates' = SaveState(dbMarkets, dbStates, id, states[id])
          /\ shutdownSaved' = shutdownSaved \cup {id}
          /\ ckTodo' = ckTodo \ {id}
    /\ UNCHANGED <<states, cycleCount, scored, prevStates, alerts,
                   notifiedMarkets, now, telegramEnabled, pc, markets,
                   cycleLocals, consecutiveFailures, cyclesRun, pollIdx,
                   pollPhase, hpc, ctxDone, twin, auxVars>>

(* Shutdown has returned: cancel(). *)
HCancel ==
    /\ hpc = "checkpoint"
    /\ pc # "crashed"
    /\ ckTodo = {}
    /\ hpc' = "done"
    /\ ctxDone' = TRUE
    /\ UNCHANGED <<engineVars, notifiedMarkets, now, telegramEnabled, pc,
                   markets, cycleLocals, consecutiveFailures, cyclesRun,
                   pollIdx, pollPhase, ckTodo, shutdownSaved, twin, auxVars>>

(* getOrCreateState inserts into m.states while the handler ranges over    *)
(* it: the Go runtime may detect the concurrent map write and end the      *)
(* process with a fatal error.                                             *)
MapRaceFatal ==
    /\ pc = "polling"
    /\ pollPhase = "top"
    /\ pollIdx <= Len(markets)
    /\ shouldProcessMarket(markets[pollIdx])
    /\ markets[pollIdx].ID \notin DOMAIN states
    /\ hpc = "checkpoint"
    /\ pc' = "crashed"
    /\ UNCHANGED <<engineVars, notifiedMarkets, now, telegramEnabled, markets,
                   cycleLocals, consecutiveFailures, cyclesRun, handlerVars,
                   twin, auxVars>>

NextShutdown ==
    \/ SStart \/ SFetchCancelled \/ SStep \/ SCommit \/ SFinish
    \/ PostProcess \/ Deliver \/ Tick \/ SExit
    \/ HSignal \/ HSave \/ HCancel \/ MapRaceFatal

SpecShutdown == Init /\ [][NextShutdown]_vars

(* C9 (as claimed): when the process exits after a shutdown signal, the    *)
(* store holds, for every series of the state table that the store knows,  *)
(* the record the table holds: nothing was changed after the shutdown      *)
(* checkpoint saved it.                                                    *)
C9_ShutdownCheckpointIsFinal ==
    pc = "exited" =>
        \A id \in DOMAIN states \cap DOMAIN dbMarkets :
            id \in DOMAIN dbStates /\ dbStates[id] = states[id]

(* A record as ProcessPoll leaves it at the end of a loop iteration: the   *)
(* stored noise estimate is the one of the stored estimator fields.        *)
WholeRecord(state) == state.LastSigma = GetSigma(state)

(* C10 (as claimed): the shutdown checkpoint never runs while a            *)
(* ProcessPoll is in progress, and every persisted record is a whole one.  *)
C10_CheckpointNeverConcurrent ==
    /\ ~(hpc = "checkpoint" /\ pc = "polling")
    /\ \A id \in DOMAIN dbStates : WholeRecord(dbStates[id])

(* A record saved between the return of processMarket and the assignments  *)
(* that follow it is in the store when the process exits.                  *)
TornRecordPersisted ==
    /\ pc = "exited"
    /\ \E id \in DOMAIN dbStates : ~WholeRecord(dbStates[id])

(* A series the shutdown checkpoint saved has another record in the table  *)
(* when the process exits.                                                 *)
SavedSeriesChangedLater ==
    /\ pc = "exited"
    /\ \E id \in shutdownSaved \cap DOMAIN dbStates : dbStates[id] # states[id]

(* The state table between iterations holds whole records only. *)
TableWholeBetweenIterations ==
    pollPhase # "scored" => \A id \in DOMAIN states :
        states[id].WelfordCount > 0 => WholeRecord(states[id])

(* main exits only after Shutdown has returned. *)
ExitAfterShutdownReturned == pc = "exited" => hpc = "done" /\ ckTodo = {}

(* A ProcessPoll call returns in this step. *)
PollReturns == pc = "polling" /\ pc' = "polled"

(* The rows of market_state this step wrote: new ones and changed ones. *)
RowsWritten ==
    {id \in DOMAIN dbStates' : id \notin DOMAIN dbStates \/ dbStates'[id] # dbStates[id]}

(* The step saved every record of the state table that the store accepts   *)
(* (SaveState refuses the row of a series the markets table does not hold) *)
(* and left the other rows as they were.                                   *)
CheckpointRan ==
    /\ \A id \in DOMAIN states \cap DOMAIN dbMarkets :
          id \in DOMAIN dbStates' /\ dbStates'[id] = states[id]
    /\ DOMAIN dbStates' = DOMAIN dbStates \cup (DOMAIN states \cap DOMAIN dbMarkets)
    /\ \A id \in DOMAIN dbStates \ DOMAIN states : dbStates'[id] = dbStates[id]

C28_Step ==
    /\ cycleCount' # cycleCount <=> PollReturns
    /\ PollReturns =>
          /\ cycleCount' = cycleCount + 1
          /\ states' = states
          /\ IF cycleCount' % CheckpointInterval = 0
             THEN CheckpointRan
             ELSE dbStates' = dbStates
    /\ (RowsWritten # {} /\ ~PollReturns) =>
          /\ hpc = "checkpoint"
          /\ \E id \in DOMAIN states \ shutdownSaved :
                /\ RowsWritten = {id}
                /\ dbStates'[id] = states[id]
                /\ shutdownSaved' = shutdownSaved \cup {id}
    /\ hpc' # hpc =>
          \/ hpc = "waiting" /\ hpc' = "checkpoint" /\ ckTodo' = DOMAIN states
          \/ hpc = "checkpoint" /\ hpc' = "done" /\ ckTodo = {}

(* C28: the cycle counter counts the ProcessPoll calls since the engine    *)
(* started, whatever the catalog holds; the call whose ordinal is a        *)
(* multiple of CheckpointInterval ends with a checkpoint that saves every  *)
(* record of the state table, every other call leaves the stored rows as   *)
(* they are; rows are written besides only by the checkpoint of Shutdown,  *)
(* which starts once, ranges over the state table and saves each record    *)
(* once.                                                                   *)
C28_CheckpointCadence == [][C28_Step]_vars

(* The call of ordinal CheckpointInterval got an empty catalog and ended   *)
(* with the checkpoint: the store holds the records of the state table,    *)
(* though no signal came.                                                  *)
C28_Witness ==
    /\ pc = "polled"
    /\ hpc = "waiting"
    /\ cycleCount = CheckpointInterval
    /\ markets = <<>>
    /\ DOMAIN states # {}
    /\ DOMAIN dbStates = DOMAIN states
    /\ \A id \in DOMAIN states : dbStates[id] = states[id]

(* The checkpoint of Shutdown has run to its end and saved a record. *)
ShutdownCheckpointRan ==
    /\ hpc = "done"
    /\ shutdownSaved # {}
    /\ \E id \in shutdownSaved : id \in DOMAIN dbStates

----------------------------------------------------------------------------
(* Storage on its own (storage tests): AddMarket, UpdateMarket,            *)
(* RotateMarkets and SaveState called in any order on a store opened with  *)
(* cap maxMarkets on a database file that may already hold rows, written   *)
(* under an earlier, larger cap.                                           *)

StoreIds == {IdA1, IdA2, IdB1}

Stamps == 0..MaxStamp

(* The markets given to AddMarket and UpdateMarket: one that passes        *)
(* Validate and one that does not.                                         *)
TestMarkets(id) ==
    {Market(id, 500, 100, 0, 0, 50),
     [Market(id, 500, 100, 0, 0, 50) EXCEPT !.NoProbability = 100]}

(* The records given to SaveState. *)
StoreStates(id) == {NewState(id), [NewState(id) EXCEPT !.WelfordCount = 1]}

MapsInto(D, R) == UNION {[K -> R] : K \in SUBSET D}

InitStore ==
    /\ states = EmptyMap
    /\ notifiedMarkets = EmptyMap
    /\ cycleCount = 0
    /\ now = 0
    /\ telegramEnabled = FALSE
    /\ pc = "idle"
    /\ markets = <<>>
    /\ alerts = <<>>
    /\ ranked = <<>>
    /\ groups = <<>>
    /\ scored = <<>>
    /\ prevStates = EmptyMap
    /\ sendResult = "none"
    /\ consecutiveFailures = 0
    /\ cyclesRun = 0
    /\ pollIdx = 0
    /\ pollPhase = "none"
    /\ hpc = "waiting"
    /\ ckTodo = {}
    /\ ctxDone = FALSE
    /\ shutdownSaved = {}
    /\ twin = NoTwin
    /\ dbMarkets \in MapsInto(StoreIds, Stamps)
    /\ dbStates \in {[id \in K |-> NewState(id)] : K \in SUBSET DOMAIN dbMarkets}
    /\ maxMarkets \in 1..MaxEvents
    /\ notice = NoNotice
    /\ storeCall = NoCall
    /\ pushed = NoPushes
    /\ request = NoRequest

storeFrame == <<states, notifiedMarkets, cycleCount, now, telegramEnabled, pc,
                markets, alerts, ranked, groups, scored, prevStates,
                sendResult, consecutiveFailures, cyclesRun, handlerVars, twin,
                maxMarkets, notice, pushed, request>>

(* What a call did, for the properties below: the rows of markets it       *)
(* removed (of the rows before the call and the inserted one) and the      *)
(* markets that had a row of market_state before it.                       *)
Call(op, id, lastUpdated, err, candidates, after) ==
    [op |-> op, id |-> id, lastUpdated |-> lastUpdated, err |-> err,
     removed |-> candidates \ DOMAIN after, hadState |-> DOMAIN dbStates]

(* s.AddMarket(market) *)
StoreAddMarket ==
    \E id \in StoreIds : \E m \in TestMarkets(id) : \E lu \in Stamps :
    \E r \in AddMarket(dbMarkets, dbStates, maxMarkets, m, lu) :
        /\ dbMarkets' = r.dbMarkets
        /\ dbStates' = r.dbStates
        /\ storeCall' = Call("AddMarket", id, lu, r.err,
                             IF r.err THEN DOMAIN dbMarkets
                             ELSE DOMAIN dbMarkets \cup {id}, r.dbMarkets)
        /\ UNCHANGED storeFrame

(* s.UpdateMarket(market) *)
StoreUpdateMarket ==
    \E id \in StoreIds : \E m \in TestMarkets(id) : \E lu \in Stamps :
    \E r \in {UpdateMarket(dbMarkets, m, lu)} :
        /\ dbMarkets' = r.dbMarkets
        /\ storeCall' = Call("UpdateMarket", id, lu, r.err, DOMAIN dbMarkets,
                             r.dbMarkets)
        /\ UNCHANGED <<dbStates, storeFrame>>

(* s.RotateMarkets() *)
StoreRotateMarkets ==
    \E r \in RotateMarkets(dbMarkets, dbStates, maxMarkets) :
        /\ dbMarkets' = r.dbMarkets
        /\ dbStates' = r.dbStates
        /\ storeCall' = Call("RotateMarkets", <<>>, 0, r.err, DOMAIN dbMarkets,
                             r.dbMarkets)
        /\ UNCHANGED storeFrame

(* s.SaveState(id, state): the error is the one of the INSERT. *)
StoreSaveState ==
    \E id \in StoreIds : \E st \in StoreStates(id) :
        /\ dbStates' = SaveState(dbMarkets, dbStates, id, st)
        /\ storeCall' = Call("SaveState", id, 0, id \notin DOMAIN dbMarkets,
                             DOMAIN dbMarkets, dbMarkets)
        /\ UNCHANGED <<dbMarkets, storeFrame>>

NextStore ==
    StoreAddMarket \/ StoreUpdateMarket \/ StoreRotateMarkets \/ StoreSaveState

SpecStore == InitStore /\ [][NextStore]_vars

(* The rows the statement of the cap chooses from in this step, and their  *)
(* last_updated.                                                           *)
CapCandidates ==
    IF storeCall'.op = "AddMarket"
    THEN DOMAIN dbMarkets \cup {storeCall'.id} ELSE DOMAIN dbMarkets

CapStamp(id) ==
    IF storeCall'.op = "AddMarket" /\ id = storeCall'.id
    THEN storeCall'.lastUpdated ELSE dbMarkets[id]

(* C17: after every AddMarket or RotateMarkets that succeeds on a store    *)
(* capped at N, the store holds the N rows with the newest last_updated of *)
(* those it held and the inserted one (all of them when they are at most   *)
(* N): never more than N, and every removed row is at most as recent as    *)
(* every row kept.                                                         *)
C17_StoreKeepsNewestUpToCap ==
    [][(storeCall'.op \in {"AddMarket", "RotateMarkets"} /\ ~storeCall'.err) =>
          /\ Cardinality(DOMAIN dbMarkets') <= maxMarkets
          /\ DOMAIN dbMarkets' \subseteq CapCandidates
          /\ Cardinality(DOMAIN dbMarkets') =
                 IF Cardinality(CapCandidates) < maxMarkets
                 THEN Cardinality(CapCandidates) ELSE maxMarkets
          /\ \A k \in DOMAIN dbMarkets' :
                /\ dbMarkets'[k] = CapStamp(k)
                /\ \A r \in CapCandidates \ DOMAIN dbMarkets' :
                      CapStamp(r) <= CapStamp(k)]_vars

(* The insert of one market more than the cap on a full store has removed  *)
(* exactly one row, an older one.                                          *)
C17_Witness ==
    /\ storeCall.op = "AddMarket"
    /\ ~storeCall.err
    /\ maxMarkets = MaxEvents
    /\ Cardinality(storeCall.removed) = 1
    /\ storeCall.id \in DOMAIN dbMarkets
    /\ Cardinality(DOMAIN dbMarkets) = maxMarkets

(* C18: every row of market_state belongs to a market the store holds; a   *)
(* market the last call evicted has no stored state; SaveState for a       *)
(* market the store does not hold fails and stores nothing.                *)
C18_StateRowsBelongToStoredMarkets ==
    /\ DOMAIN dbStates \subseteq DOMAIN dbMarkets
    /\ storeCall.op # "none" => storeCall.removed \cap DOMAIN dbStates = {}
    /\ (storeCall.op = "SaveState" /\ storeCall.id \notin DOMAIN dbMarkets) =>
           /\ storeCall.err
           /\ storeCall.id \notin DOMAIN dbStates

(* The last call evicted a market that had stored state. *)
C18_Witness ==
    /\ storeCall.op \in {"AddMarket", "RotateMarkets"}
    /\ storeCall.removed \cap storeCall.hadState # {}

(* SaveState was refused for a market the store does not hold. *)
SaveStateRefused ==
    /\ storeCall.op = "SaveState"
    /\ storeCall.err
    /\ storeCall.id \notin DOMAIN dbMarkets

----------------------------------------------------------------------------
(* UpdateTCBuffer on its own (TestTCBuffer): values pushed one after the   *)
(* other into the buffer of a fresh MarketState, for a window chosen at    *)
(* the start.                                                              *)

PushValues == {0, 50, 100}

InitBuf ==
    /\ states = (IdA1 :> NewState(IdA1))
    /\ notifiedMarkets = EmptyMap
    /\ cycleCount = 0
    /\ dbStates = EmptyMap
    /\ now = 0
    /\ telegramEnabled = FALSE
    /\ pc = "idle"
    /\ markets = <<>>
    /\ alerts = <<>>
    /\ ranked = <<>>
    /\ groups = <<>>
    /\ scored = <<>>
    /\ prevStates = EmptyMap
    /\ sendResult = "none"
    /\ consecutiveFailures = 0
    /\ cyclesRun = 0
    /\ pollIdx = 0
    /\ pollPhase = "none"
    /\ hpc = "waiting"
    /\ ckTodo = {}
    /\ ctxDone = FALSE
    /\ shutdownSaved = {}
    /\ twin = NoTwin
    /\ dbMarkets = EmptyMap
    /\ maxMarkets = MaxEvents
    /\ notice = NoNotice
    /\ storeCall = NoCall
    /\ \E w \in 1..MaxWindow : pushed = [window |-> w, values |-> <<>>]
    /\ request = NoRequest

(* UpdateTCBuffer(state, v, tt.window) *)
BufPush ==
    /\ Len(pushed.values) < MaxPushes
    /\ \E v \in PushValues :
          /\ states' = [states EXCEPT
                           ![IdA1] = UpdateTCBuffer(@, v, pushed.window)]
          /\ pushed' = [pushed EXCEPT !.values = Append(@, v)]
    /\ UNCHANGED <<notifiedMarkets, cycleCount, dbStates, now, telegramEnabled,
                   pc, markets, alerts, ranked, groups, scored, prevStates,
                   sendResult, consecutiveFailures, cyclesRun, handlerVars,
                   twin, dbMarkets, maxMarkets, notice, storeCall, request>>

NextBuf == BufPush

SpecBuf == InitBuf /\ [][NextBuf]_vars

(* C19: after n pushes with window W the buffer holds the most recent      *)
(* min(n, W) pushed values and nothing else: its length is min(n, W), and  *)
(* the k-th pushed value, for each of the last min(n, W) values of k, sits *)
(* in the slot the pushes reach in ring order, the slot of the oldest      *)
(* value being the next one written.                                       *)
C19_BufferHoldsMostRecent ==
    LET n == Len(pushed.values)
        W == pushed.window
        buf == states[IdA1].TCBuffer
    IN  /\ Len(buf) = Min(n, W)
        /\ Len(buf) <= W
        /\ \A k \in 1..n :
              k > n - Min(n, W) => buf[((k - 1) % W) + 1] = pushed.values[k]
        /\ states[IdA1].TCIndex = n % W

(* Two pushes beyond a window of at least two: what the buffer holds is    *)
(* not all that was pushed.                                                *)
C19_Witness ==
    /\ pushed.window >= 2
    /\ Len(pushed.values) = pushed.window + 2
    /\ pushed.values[1] # pushed.values[pushed.window + 1]
    /\ \A i \in 1..Len(states[IdA1].TCBuffer) :
          states[IdA1].TCBuffer[i] # pushed.values[1]

----------------------------------------------------------------------------
(* Order of processing: two Monitors are fed the same catalogs of distinct *)
(* series, the second one (twin) in a permuted order.                      *)

DistinctIds(ms) ==
    \A i \in 1..Len(ms) : \A j \in 1..Len(ms) : ms[i].ID = ms[j].ID => i = j

InitOrder ==
    /\ states = EmptyMap
    /\ notifiedMarkets = EmptyMap
    /\ cycleCount = 0
    /\ dbStates = EmptyMap
    /\ now = 0
    /\ telegramEnabled = FALSE
    /\ pc = "idle"
    /\ markets = <<>>
    /\ alerts = <<>>
    /\ ranked = <<>>
    /\ groups = <<>>
    /\ scored = <<>>
    /\ prevStates = EmptyMap
    /\ sendResult = "none"
    /\ consecutiveFailures = 0
    /\ cyclesRun = 0
    /\ pollIdx = 0
    /\ pollPhase = "none"
    /\ hpc = "waiting"
    /\ ckTodo = {}
    /\ ctxDone = FALSE
    /\ shutdownSaved = {}
    /\ \E t \in TwinClocks : twin = [order |-> <<>>] @@ [NoTwin EXCEPT !.now = t]
    /\ dbMarkets = EmptyMap
    /\ maxMarkets = MaxEvents
    /\ notice = NoNotice
    /\ storeCall = NoCall
    /\ pushed = NoPushes
    /\ request = NoRequest

(* The next catalog, without repeated identifiers. *)
OrderFetch ==
    /\ pc = "idle"
    /\ cyclesRun < MaxCycles
    /\ \E cat \in {c \in Catalogs : DistinctIds(c)} : markets' = cat
    /\ pc' = "fetched"
    /\ cyclesRun' = cyclesRun + 1
    /\ UNCHANGED <<engineVars, now, twin, detFrame>>

(* alerts2 := m2.ProcessPoll(permuted), permuted being markets in the      *)
(* order twin.order.                                                       *)
OrderPollTwin ==
    /\ pc \in {"fetched", "polled"}
    /\ ~twin.polled
    /\ \E p \in IndexPerms(Len(markets)) :
          \E r \in {ProcessPoll(twin.states, twin.cycleCount, EmptyMap, twin.dbStates,
                                Permute(markets, p), twin.now)} :
             twin' = [twin EXCEPT !.states = r.states,
                                  !.cycleCount = r.cycleCount,
                                  !.dbStates = r.dbStates,
                                  !.scored = r.scored,
                                  !.alerts = r.alerts,
                                  !.polled = TRUE,
                                  !.order = p]
    /\ UNCHANGED <<engineVars, now, markets, pc, cyclesRun, detFrame>>

NextOrder == OrderFetch \/ DetPoll \/ OrderPollTwin \/ DetTick

SpecOrder == InitOrder /\ [][NextOrder]_vars

(* A state record and an alert without the readings of time.Now(). *)
Untimed(state) == [state EXCEPT !.UpdatedAt = 0]

Undated(alert) == [alert EXCEPT !.DetectedAt = 0]

UndatedSet(as) == {Undated(as[i]) : i \in 1..Len(as)}

(* C25: for a catalog of distinct series, the Monitor that processed it in *)
(* a permuted order holds the same state record for every series and has   *)
(* returned the same set of alerts, with the same scores and contents, as  *)
(* the Monitor that processed it in the given order; the same holds for    *)
(* the scores of the samples that raised no alert.                         *)
C25_OrderDoesNotMatter ==
    (pc = "polled" /\ twin.polled) =>
        /\ DOMAIN states = DOMAIN twin.states
        /\ \A id \in DOMAIN states : Untimed(states[id]) = Untimed(twin.states[id])
        /\ Len(alerts) = Len(twin.alerts)
        /\ UndatedSet(alerts) = UndatedSet(twin.alerts)
        /\ Len(scored) = Len(twin.scored)
        /\ UndatedSet(scored) = UndatedSet(twin.scored)
        /\ cycleCount = twin.cycleCount

(* In a later cycle the twin processed two series in the other order and   *)
(* both raised an alert: the two alert lists are in opposite orders.       *)
C25_Witness ==
    /\ pc = "polled"
    /\ twin.polled
    /\ cyclesRun >= 2
    /\ Len(markets) = 2
    /\ twin.order = <<2, 1>>
    /\ Len(alerts) = 2
    /\ Undated(alerts[1]) = Undated(twin.alerts[2])
    /\ Undated(alerts[2]) = Undated(twin.alerts[1])

----------------------------------------------------------------------------
(* Warm restart: the rows of market_state as SaveState writes them and     *)
(* LoadState and LoadAllStates read them back, and a Monitor created over  *)
(* the store of an earlier run.                                            *)

DigitChars == <<"0", "1", "2", "3", "4", "5", "6", "7", "8", "9">>

RECURSIVE FormatNat(_)
FormatNat(n) ==
    IF n < 10 THEN <<DigitChars[n + 1]>>
    ELSE FormatNat(n \div 10) \o <<DigitChars[(n % 10) + 1]>>

(* The JSON text of one number of the buffer.  The model's numbers are     *)
(* fixed-point integers; the text is their decimal form, as the text of a  *)
(* float64 is the decimal form that reads back as the same float64.        *)
FormatNumber(x) == IF x < 0 THEN <<"-">> \o FormatNat(0 - x) ELSE FormatNat(x)

RECURSIVE JoinNumbers(_)
JoinNumbers(xs) ==
    IF Len(xs) = 1 THEN FormatNumber(xs[1])
    ELSE FormatNumber(Head(xs)) \o <<",">> \o JoinNumbers(Tail(xs))

(* json.Marshal(state.TCBuffer): a buffer nothing was appended to is a nil *)
(* slice, whose text is null.                                              *)
Marshal(buf) ==
    IF buf = <<>> THEN <<"n", "u", "l", "l">>
    ELSE <<"[">> \o JoinNumbers(buf) \o <<"]">>

DigitValue(c) == CHOOSE d \in 0..9 : DigitChars[d + 1] = c

RECURSIVE ParseNat(_, _)
ParseNat(cs, acc) ==
    IF cs = <<>> THEN acc
    ELSE ParseNat(Tail(cs), acc * 10 + DigitValue(Head(cs)))

ParseNumber(cs) ==
    IF Head(cs) = "-" THEN 0 - ParseNat(Tail(cs), 0) ELSE ParseNat(cs, 0)

(* The numbers of a comma-separated text; cur is the text of the number    *)
(* being read.                                                             *)
RECURSIVE ParseNumbers(_, _)
ParseNumbers(cs, cur) ==
    IF cs = <<>> THEN <<ParseNumber(cur)>>
    ELSE IF Head(cs) = "," THEN <<ParseNumber(cur)>> \o ParseNumbers(Tail(cs), <<>>)
    ELSE ParseNumbers(Tail(cs), Append(cur, Head(cs)))

(* json.Unmarshal([]byte(tcBufferJSON), &state.TCBuffer) *)
Unmarshal(text) ==
    IF text = <<"n", "u", "l", "l">> \/ text = <<"[", "]">> THEN <<>>
    ELSE ParseNumbers(SubSeq(text, 2, Len(text) - 1), <<>>)

(* The values the build can get from UnixNano on the zero time.Time, which *)
(* a record that was never scored holds: the year 1 is outside the range   *)
(* of an int64 of nanoseconds and the result is undefined.  time.Unix      *)
(* turns none of them back into the zero time.                             *)
WrappedStamps == {-2, -1}

(* state.UpdatedAt.UnixNano() *)
UnixNano(t) == IF t = NewState(<<>>).UpdatedAt THEN WrappedStamps ELSE {t}

(* The rows SaveState(marketID, state) can write. *)
Rows(marketID, state) ==
    {[market_id |-> marketID,
      welford_count |-> state.WelfordCount,
      welford_mean |-> state.WelfordMean,
      welford_m2 |-> state.WelfordM2,
      avg_depth |-> state.AvgDepth,
      tc_buffer |-> Marshal(state.TCBuffer),
      tc_index |-> state.TCIndex,
      last_price |-> state.LastPrice,
      last_sigma |-> state.LastSigma,
      last_volume |-> state.LastVolume,
      updated_at |-> u] : u \in UnixNano(state.UpdatedAt)}

(* A row read back without its tc_index. *)
FromRowWithoutIndex(row) ==
    [MarketID |-> row.market_id,
     WelfordCount |-> row.welford_count,
     WelfordMean |-> row.welford_mean,
     WelfordM2 |-> row.welford_m2,
     AvgDepth |-> row.avg_depth,
     TCBuffer |-> Unmarshal(row.tc_buffer),
     TCIndex |-> 0,
     LastPrice |-> row.last_price,
     LastSigma |-> row.last_sigma,
     LastVolume |-> row.last_volume,
     UpdatedAt |-> row.updated_at]

(* row.Scan, json.Unmarshal and time.Unix(0, updatedAtNano) of LoadState   *)
(* and LoadAllStates.                                                      *)
FromRow(row) ==
    [MarketID |-> row.market_id,
     WelfordCount |-> row.welford_count,
     WelfordMean |-> row.welford_mean,
     WelfordM2 |-> row.welford_m2,
     AvgDepth |-> row.avg_depth,
     TCBuffer |-> Unmarshal(row.tc_buffer),
     TCIndex |-> row.tc_index,
     LastPrice |-> row.last_price,
     LastSigma |-> row.last_sigma,
     LastVolume |-> row.last_volume,
     UpdatedAt |-> row.updated_at]

(* Storage.LoadState: the records it can return for the row of marketID,   *)
(* db holding the record each row was saved from; none without a row.      *)
LoadState(db, marketID) ==
    IF marketID \notin DOMAIN db THEN {}
    ELSE {FromRow(row) : row \in Rows(marketID, db[marketID])}

(* Storage.LoadAllStates: the tables it can return, keyed by the MarketID  *)
(* of the record read.                                                     *)
LoadAllStates(db) ==
    {t \in [DOMAIN db -> UNION {LoadState(db, id) : id \in DOMAIN db}] :
        \A id \in DOMAIN db : t[id] \in LoadState(db, id) /\ t[id].MarketID = id}

(* monitor.New: the state table of the new Monitor.  A LoadAllStates that  *)
(* fails is logged and the table stays empty.                              *)
New(db) ==
    {[states |-> t, err |-> FALSE] : t \in LoadAllStates(db)}
        \cup {[states |-> EmptyMap, err |-> TRUE]}

LoadCall(err) == [NoCall EXCEPT !.op = "LoadAllStates", !.err = err]

InitRestart ==
    /\ states = EmptyMap
    /\ notifiedMarkets = EmptyMap
    /\ cycleCount = 0
    /\ dbStates = EmptyMap
    /\ now = 1
    /\ telegramEnabled = FALSE
    /\ pc = "idle"
    /\ markets = <<>>
    /\ alerts = <<>>
    /\ ranked = <<>>
    /\ groups = <<>>
    /\ scored = <<>>
    /\ prevStates = EmptyMap
    /\ sendResult = "none"
    /\ consecutiveFailures = 0
    /\ cyclesRun = 0
    /\ pollIdx = 0
    /\ pollPhase = "none"
    /\ hpc = "waiting"
    /\ ckTodo = {}
    /\ ctxDone = FALSE
    /\ shutdownSaved = {}
    /\ twin = NoTwin
    /\ dbMarkets = EmptyMap
    /\ maxMarkets \in 1..MaxEvents
    /\ notice = NoNotice
    /\ storeCall = LoadCall(FALSE)
    /\ pushed = NoPushes
    /\ request = NoRequest

(* A cycle up to the end of the loop of ProcessPoll: the fetch, the store  *)
(* loop, and the loop over the markets.                                    *)
RStart ==
    /\ pc = "idle"
    /\ cyclesRun < MaxCycles
    /\ \E cat \in ShutdownCatalogs :
          /\ markets' = cat
          /\ \E s \in StoreMarkets(dbMarkets, dbStates, maxMarkets, cat, 1, now) :
                /\ dbMarkets' = s.dbMarkets
                /\ dbStates' = s.dbStates
          /\ \E r \in {PollLoop(states, cat, 1, now, <<>>)} :
                /\ states' = r.states
                /\ scored' = r.scored
                /\ alerts' = SelectAlerts(r.scored)
          /\ pollIdx' = Len(cat) + 1
    /\ cyclesRun' = cyclesRun + 1
    /\ pc' = "polling"
    /\ pollPhase' = "top"
    /\ prevStates' = states
    /\ UNCHANGED <<cycleCount, notifiedMarkets, now, telegramEnabled, cycleLocals,
                   consecutiveFailures, hpc, ckTodo, ctxDone, shutdownSaved,
                   twin, maxMarkets, notice, unitVars>>

(* The cycle is over; the ticker fires and, after every cycle but the      *)
(* first of a run, RotateMarkets is called.                                *)
RTick ==
    /\ pc = "polled"
    /\ pc' = "idle"
    /\ now' = now + PollInterval
    /\ markets' = <<>>
    /\ alerts' = <<>>
    /\ scored' = <<>>
    /\ prevStates' = EmptyMap
    /\ storeCall' = NoCall
    /\ IF storeCall.op # "LoadAllStates"
       THEN \E r \in RotateMarkets(dbMarkets, dbStates, maxMarkets) :
                /\ dbMarkets' = r.dbMarkets
                /\ dbStates' = r.dbStates
       ELSE UNCHANGED <<dbMarkets, dbStates>>
    /\ UNCHANGED <<states, cycleCount, notifiedMarkets, telegramEnabled,
                   cycleLocals, consecutiveFailures, cyclesRun, handlerVars,
                   twin, maxMarkets, notice, pushed, request>>

(* A signal between two cycles: mon.Shutdown() and the process exits. *)
RShutdown ==
    /\ pc = "idle"
    /\ dbStates' = checkpoint(dbMarkets, states, dbStates)
    /\ pc' = "exited"
    /\ UNCHANGED <<states, cycleCount, scored, prevStates, alerts,
                   notifiedMarkets, now, telegramEnabled, markets, cycleLocals,
                   consecutiveFailures, cyclesRun, handlerVars, twin, auxVars>>

(* The process starts again over the same database, after a Shutdown or    *)
(* after it was killed between two cycles: mon := monitor.New(store, cfg). *)
Restart ==
    /\ pc \in {"idle", "exited"}
    /\ \E r \in New(dbStates) :
          /\ states' = r.states
          /\ storeCall' = LoadCall(r.err)
    /\ cycleCount' = 0
    /\ notifiedMarkets' = EmptyMap
    /\ consecutiveFailures' = 0
    /\ pc' = "idle"
    /\ UNCHANGED <<dbStates, scored, prevStates, alerts, now, telegramEnabled,
                   markets, cycleLocals, cyclesRun, handlerVars, twin,
                   dbMarkets, maxMarkets, notice, pushed, request>>

NextRestart == RStart \/ SFinish \/ RTick \/ RShutdown \/ Restart

SpecRestart == InitRestart /\ [][NextRestart]_vars

(* The fields of a record the claim lists. *)
Persisted(state) ==
    <<state.WelfordCount, state.WelfordMean, state.WelfordM2, state.AvgDepth,
      state.TCBuffer, state.TCIndex, state.LastPrice, state.LastSigma,
      state.LastVolume>>

(* The Monitor of this run was created by a New whose load succeeded, and  *)
(* has not finished its first cycle.                                       *)
FreshlyLoaded == storeCall.op = "LoadAllStates" /\ ~storeCall.err

(* The same with a load that failed. *)
FreshlyFailed == storeCall.op = "LoadAllStates" /\ storeCall.err

(* C29: LoadState and LoadAllStates return every saved record with the     *)
(* sample count, mean, sum of squared deviations, average depth, buffer    *)
(* contents and index, last price, last noise estimate and last volume it  *)
(* was saved with; a Monitor created over the store starts with those      *)
(* records; in its first cycle a series that has one is scored, not        *)
(* cold-started, and the old probability of the score is the persisted     *)
(* last probability.                                                       *)
C29_WarmRestart ==
    /\ \A id \in DOMAIN dbStates :
          /\ LoadState(dbStates, id) # {}
          /\ \A l \in LoadState(dbStates, id) :
                l.MarketID = id /\ Persisted(l) = Persisted(dbStates[id])
    /\ \A t \in LoadAllStates(dbStates) :
          /\ DOMAIN t = DOMAIN dbStates
          /\ \A id \in DOMAIN t : Persisted(t[id]) = Persisted(dbStates[id])
    /\ (FreshlyLoaded /\ pc = "idle") =>
          /\ DOMAIN states = DOMAIN dbStates
          /\ \A id \in DOMAIN states :
                states[id].MarketID = id /\ Persisted(states[id]) = Persisted(dbStates[id])
    /\ (FreshlyLoaded /\ pc \in {"polling", "polled"}) =>
          \A i \in 1..Len(markets) :
              (/\ shouldProcessMarket(markets[i])
               /\ markets[i].ID \in DOMAIN prevStates
               /\ EntriesOf(markets[i].ID) = {i}) =>
                  /\ Cardinality(ScoredFor(markets[i].ID)) = 1
                  /\ \A k \in ScoredFor(markets[i].ID) :
                        /\ scored[k].OldProb = prevStates[markets[i].ID].LastPrice
                        /\ scored[k].NewProb = markets[i].YesProbability
                  /\ states[markets[i].ID].WelfordCount
                        >= prevStates[markets[i].ID].WelfordCount

(* After a restart a series listed once was scored against a record that   *)
(* came through the store with a filled buffer and a time stamp, on a move *)
(* from the persisted probability.                                         *)
C29_Witness ==
    /\ FreshlyLoaded
    /\ pc = "polled"
    /\ cycleCount = 1
    /\ \E k \in 1..Len(scored) :
          /\ EntriesOf(scored[k].MarketID) # {}
          /\ \A i \in EntriesOf(scored[k].MarketID) : EntriesOf(scored[k].MarketID) = {i}
          /\ scored[k].MarketID \in DOMAIN prevStates
          /\ Len(prevStates[scored[k].MarketID].TCBuffer) > 0
          /\ prevStates[scored[k].MarketID].UpdatedAt > 0
          /\ scored[k].OldProb = prevStates[scored[k].MarketID].LastPrice
          /\ scored[k].OldProb # scored[k].NewProb

(* A record that was never scored comes back with another UpdatedAt: the   *)
(* whole record is not returned unchanged.                                 *)
StampNotReturned ==
    \E id \in DOMAIN dbStates : \E l \in LoadState(dbStates, id) : l # dbStates[id]

C27_Step ==
    /\ (PollReturns /\ cycleCount' % CheckpointInterval = 0) =>
          /\ states' = states
          /\ \A id \in DOMAIN states \cap DOMAIN dbMarkets :
                id \in DOMAIN dbStates' /\ dbStates'[id] = states[id]
          /\ \A id \in DOMAIN states \ DOMAIN dbMarkets :
                /\ id \in DOMAIN dbStates' <=> id \in DOMAIN dbStates
                /\ id \in DOMAIN dbStates => dbStates'[id] = dbStates[id]
    /\ (pc' = "idle" /\ storeCall'.op = "LoadAllStates" /\ storeCall'.err) =>
          states' = EmptyMap
    /\ (FreshlyFailed /\ pc = "idle" /\ pc' = "polling") =>
          /\ states = EmptyMap
          /\ \A i \in 1..Len(markets') :
                (/\ shouldProcessMarket(markets'[i])
                 /\ \A j \in 1..Len(markets') :
                       markets'[j].ID = markets'[i].ID => j = i) =>
                    /\ states'[markets'[i].ID] = ColdState(markets'[i])
                    /\ \A k \in 1..Len(scored') : scored'[k].MarketID # markets'[i].ID
          /\ \A k \in 1..Len(scored') :
                \E i \in 1..Len(markets') : \E j \in 1..Len(markets') :
                    /\ i < j
                    /\ markets'[i].ID = scored'[k].MarketID
                    /\ markets'[j].ID = scored'[k].MarketID
                    /\ scored'[k].OldProb = markets'[i].YesProbability
          /\ \A id \in DOMAIN states' :
                \E i \in 1..Len(markets') :
                    markets'[i].ID = id /\ shouldProcessMarket(markets'[i])

(* C27: a checkpoint in which SaveState fails for a series (the store no   *)
(* longer holds its market) saves every other record of the state table    *)
(* and changes no record in memory; a Monitor whose LoadAllStates failed   *)
(* starts with an empty state table, and in its first cycle every          *)
(* processed series is initialized from its sample, whatever the store     *)
(* holds: a series listed once is not scored, and a score is only ever     *)
(* taken against an earlier entry of the same catalog.                     *)
C27_PersistenceFailuresNotFatal == [][C27_Step]_vars

(* A checkpoint has run in which SaveState failed for one series and       *)
(* another series was saved.                                               *)
C27_Witness ==
    /\ pc = "polled"
    /\ cycleCount % CheckpointInterval = 0
    /\ \E id \in DOMAIN states \ DOMAIN dbMarkets : id \notin DOMAIN dbStates
    /\ \E id \in DOMAIN states \cap DOMAIN dbMarkets :
          /\ id \in DOMAIN dbStates
          /\ dbStates[id] = states[id]
          /\ states[id].UpdatedAt = now

(* After a load that failed, a series whose record the store holds was     *)
(* cold-started.                                                           *)
ColdStartAfterFailedLoad ==
    /\ FreshlyFailed
    /\ pc = "polled"
    /\ \E id \in DOMAIN states \cap DOMAIN dbStates :
          /\ states[id].WelfordCount = 1
          /\ dbStates[id].WelfordCount > 1

----------------------------------------------------------------------------
(* The scorer at the ends of the probability range: one series whose       *)
(* record was made by a cold start is polled with probabilities from 0 to  *)
(* 1, with and without volume, with and without liquidity.                 *)

ProbGrid == {0, 1, One \div 2, One - 1, One}

ScoreTables ==
    {IdA1 :> ColdStart(NewState(IdA1), Market(IdA1, p, Volume24hrMin, 0, 0, liq)) :
        p \in ProbGrid, liq \in {0, 50}}

ScoreMarkets ==
    {Market(IdA1, p, v, Volume1wkMin, 0, liq) :
        p \in ProbGrid, v \in {0, Volume24hrMin}, liq \in {0, 50}}

InitScore ==
    /\ states \in ScoreTables
    /\ notifiedMarkets = EmptyMap
    /\ cycleCount = 0
    /\ dbStates = EmptyMap
    /\ now = 1
    /\ telegramEnabled = TRUE
    /\ pc = "score"
    /\ markets = <<>>
    /\ alerts = <<>>
    /\ ranked = <<>>
    /\ groups = <<>>
    /\ scored = <<>>
    /\ prevStates = EmptyMap
    /\ sendResult = "none"
    /\ consecutiveFailures = 0
    /\ cyclesRun = 0
    /\ pollIdx = 0
    /\ pollPhase = "none"
    /\ hpc = "waiting"
    /\ ckTodo = {}
    /\ ctxDone = FALSE
    /\ shutdownSaved = {}
    /\ twin = NoTwin
    /\ dbMarkets = EmptyMap
    /\ maxMarkets = MaxEvents
    /\ notice = NoNotice
    /\ storeCall = NoCall
    /\ pushed = NoPushes
    /\ request = NoRequest

(* alerts, err := mon.ProcessPoll(markets), on a catalog of one series *)
ScorePoll ==
    /\ cyclesRun < MaxCycles
    /\ \E m \in ScoreMarkets :
          /\ markets' = <<m>>
          /\ \E r \in {ProcessPoll(states, cycleCount, dbMarkets, dbStates, <<m>>, now)} :
                /\ states' = r.states
                /\ cycleCount' = r.cycleCount
                /\ dbStates' = r.dbStates
                /\ scored' = r.scored
                /\ alerts' = r.alerts
    /\ prevStates' = states
    /\ cyclesRun' = cyclesRun + 1
    /\ now' = now + 1
    /\ pc' = "scored"
    /\ UNCHANGED <<notifiedMarkets, telegramEnabled, ranked, groups, sendResult,
                   consecutiveFailures, handlerVars, twin, auxVars>>

NextScore == ScorePoll

SpecScore == InitScore /\ [][NextScore]_vars

(* The value under the outer square root of the divergence: one minus the  *)
(* Bhattacharyya coefficient.  The square root is a number only when it is *)
(* not negative.                                                           *)
Radicand(p0, p1) == One - (Sqrt(p1 * p0) + Sqrt((One - p1) * (One - p0)))

(* The largest energy of one sample: a divergence of 1 under full pressure *)
(* over the smallest volatility.                                           *)
MaxEnergy == (One * ScoreOne) \div Delta

(* The two divisors of the scorer, without their Epsilon: the estimated    *)
(* volatility and the depth.  The quotient is finite when the divisor with *)
(* its Epsilon is positive, that is when the value is not negative.        *)
ScoredNumbers(state, a) ==
    /\ state.LastSigma >= Delta
    /\ state.AvgDepth >= 0
    /\ Radicand(a.OldProb, a.NewProb) \in 0..One
    /\ a.HellingerDist \in 0..One
    /\ a.HellingerDist = 0 <=> a.OldProb = a.NewProb
    /\ a.LiqPressure \in 0..One
    /\ a.InstEnergy >= 0
    /\ a.InstEnergy <= MaxEnergy
    /\ a.TC \in 0..(WindowSize * MaxEnergy)
    /\ a.FinalScore >= 0
    /\ a.FinalScore <= (MaxEnergy * Sqrt(WindowSize * MaxEnergy * ScoreOne)) \div ScoreOne

----------------------------------------------------------------------------
(* A restart under another window size: the state table is the one an      *)
(* earlier run checkpointed under its own monitor.window_size, and the     *)
(* cycles run under WindowSize.                                            *)

(* state.TCBuffer[state.TCIndex] = value, when the index is not one of the *)
(* slice: the Go runtime panics, and nothing in main recovers.             *)
IndexOutOfRange(state, windowSize) ==
    /\ Len(state.TCBuffer) >= windowSize
    /\ state.TCIndex >= Len(state.TCBuffer)

ResizeMarket == Market(IdA1, 500, 100, 0, 0, 50)

(* The record of a series after a cold start and n scored samples of an    *)
(* unchanged probability.  Every energy is zero, so only the buffer and    *)
(* its index depend on the window.                                         *)
RECURSIVE ConstantRun(_)
ConstantRun(n) ==
    IF n = 0 THEN ColdStart(NewState(IdA1), ResizeMarket)
    ELSE LET state == ConstantRun(n - 1)
         IN  CommitSample(processMarket(state, ResizeMarket, 0, n).state,
                          ResizeMarket, n)

RECURSIVE PushZeros(_, _, _)
PushZeros(state, n, windowSize) ==
    IF n = 0 THEN state
    ELSE UpdateTCBuffer(PushZeros(state, n - 1, windowSize), 0, windowSize)

(* The record as the earlier run, with window size w, wrote it. *)
OldRecord(n, w) ==
    LET buf == PushZeros(NewState(IdA1), n, w)
    IN  [ConstantRun(n) EXCEPT !.TCBuffer = buf.TCBuffer, !.TCIndex = buf.TCIndex]

InitResize ==
    /\ \E n \in 0..MaxOldSamples, w \in 1..MaxOldWindow :
          /\ states = (IdA1 :> OldRecord(n, w))
          /\ pushed = [window |-> w, values |-> [i \in 1..n |-> 0]]
          /\ now = n + 1
    /\ request = NoRequest
    /\ notifiedMarkets = EmptyMap
    /\ cycleCount = 0
    /\ dbStates = EmptyMap
    /\ telegramEnabled = TRUE
    /\ pc = "loaded"
    /\ markets = <<>>
    /\ alerts = <<>>
    /\ ranked = <<>>
    /\ groups = <<>>
    /\ scored = <<>>
    /\ prevStates = EmptyMap
    /\ sendResult = "none"
    /\ consecutiveFailures = 0
    /\ cyclesRun = 0
    /\ pollIdx = 0
    /\ pollPhase = "none"
    /\ hpc = "waiting"
    /\ ckTodo = {}
    /\ ctxDone = FALSE
    /\ shutdownSaved = {}
    /\ twin = NoTwin
    /\ dbMarkets = EmptyMap
    /\ maxMarkets = MaxEvents
    /\ notice = NoNotice
    /\ storeCall = NoCall

(* The loop of ProcessPoll reaches the write into the buffer with an index *)
(* outside it.                                                             *)
Panics(st, ms) ==
    \E i \in 1..Len(ms) :
        /\ shouldProcessMarket(ms[i])
        /\ ms[i].ID \in DOMAIN st
        /\ st[ms[i].ID].WelfordCount # 0
        /\ IndexOutOfRange(st[ms[i].ID], WindowSize)

(* alerts, err := mon.ProcessPoll(markets): the call returns. *)
ResizePoll ==
    /\ pc # "panic"
    /\ cyclesRun < MaxCycles
    /\ \E q \in Quotes :
          /\ markets' = <<Market(IdA1, q[1], q[2], 0, 0, q[3])>>
          /\ ~Panics(states, markets')
          /\ \E r \in {ProcessPoll(states, cycleCount, dbMarkets, dbStates, markets', now)} :
                /\ states' = r.states
                /\ cycleCount' = r.cycleCount
                /\ dbStates' = r.dbStates
                /\ scored' = r.scored
                /\ alerts' = r.alerts
    /\ prevStates' = states
    /\ cyclesRun' = cyclesRun + 1
    /\ now' = now + 1
    /\ pc' = "polled"
    /\ UNCHANGED <<notifiedMarkets, telegramEnabled, ranked, groups, sendResult,
                   consecutiveFailures, handlerVars, twin, auxVars>>

(* alerts, err := mon.ProcessPoll(markets): the call panics with "index    *)
(* out of range" and the process ends.                                     *)
ResizePanic ==
    /\ pc # "panic"
    /\ cyclesRun < MaxCycles
    /\ \E q \in Quotes :
          /\ markets' = <<Market(IdA1, q[1], q[2], 0, 0, q[3])>>
          /\ Panics(states, markets')
    /\ prevStates' = states
    /\ cyclesRun' = cyclesRun + 1
    /\ pc' = "panic"
    /\ UNCHANGED <<states, notifiedMarkets, cycleCount, dbStates, now,
                   telegramEnabled, alerts, ranked, groups, scored, sendResult,
                   consecutiveFailures, handlerVars, twin, auxVars>>

NextResize == ResizePoll \/ ResizePanic

SpecResize == InitResize /\ [][NextResize]_vars

(* C33: no input aborts a cycle: whatever the catalog and the state table, *)
(* one loaded from a checkpoint written under another window size          *)
(* included, ProcessPoll runs to completion without an out-of-range index  *)
(* and processes every eligible series of the catalog.                     *)
C33_NoInputAbortsACycle ==
    /\ pc # "panic"
    /\ pc = "polled" =>
          \A i \in 1..Len(markets) :
              shouldProcessMarket(markets[i]) =>
                  /\ Len(scored) = 1
                  /\ states[markets[i].ID].UpdatedAt = now - 1

(* The first poll after a restart with a smaller window: the checkpoint    *)
(* held a buffer that was not yet full under the old window, with its      *)
(* write index at its end.                                                 *)
PanicOnLoadedBuffer ==
    /\ pc = "panic"
    /\ cyclesRun = 1
    /\ pushed.window > WindowSize
    /\ Len(states[IdA1].TCBuffer) = WindowSize
    /\ states[IdA1].TCIndex = WindowSize

(* A checkpoint written under a window that is not larger than the current *)
(* one never aborts a cycle.                                               *)
NoPanicUnlessWindowShrank == pc = "panic" => pushed.window > WindowSize

----------------------------------------------------------------------------
(* The notification path over several cycles: a record of an earlier send  *)
(* exists, and each cycle post-processes and delivers a list of alerts     *)
(* such as ProcessPoll returns.                                            *)

CoolInputs ==
    {<<>>}
      \cup {<<CandidateAlert(IdA1, m[1], m[2], 400)>> : m \in Moves}
      \cup {<<CandidateAlert(IdA1, m[1], m[2], 400),
              CandidateAlert(IdB1, 500, 600, 500)>> : m \in Moves}

InitCool ==
    /\ states = EmptyMap
    /\ notifiedMarkets \in RecordTables
    /\ cycleCount = 0
    /\ dbStates = EmptyMap
    /\ now = PollInterval
    /\ telegramEnabled = TRUE
    /\ pc = "idle"
    /\ markets = <<>>
    /\ alerts = <<>>
    /\ ranked = <<>>
    /\ groups = <<>>
    /\ scored = <<>>
    /\ prevStates = EmptyMap
    /\ sendResult = "none"
    /\ consecutiveFailures = 0
    /\ cyclesRun = 0
    /\ pollIdx = 0
    /\ pollPhase = "none"
    /\ hpc = "waiting"
    /\ ckTodo = {}
    /\ ctxDone = FALSE
    /\ shutdownSaved = {}
    /\ twin = NoTwin
    /\ dbMarkets = EmptyMap
    /\ maxMarkets = MaxEvents
    /\ notice = NoNotice
    /\ storeCall = NoCall
    /\ pushed = NoPushes
    /\ request = NoRequest

(* alerts, err := mon.ProcessPoll(markets), as the list it returned *)
CoolPoll ==
    /\ pc = "idle"
    /\ cyclesRun < MaxCoolCycles
    /\ alerts' \in CoolInputs
    /\ cyclesRun' = cyclesRun + 1
    /\ pc' = "polled"
    /\ UNCHANGED <<states, cycleCount, dbStates, scored, prevStates,
                   notifiedMarkets, now, telegramEnabled, markets, ranked, groups,
                   sendResult, consecutiveFailures, handlerVars, twin, auxVars>>

NextCool == CoolPoll \/ PostProcess \/ Deliver \/ Tick

SpecCool == InitCool /\ [][NextCool]_vars

(* Some alert of the series was among the ranked groups and none of its    *)
(* alerts is in the result.                                                *)
FilteredOut(id) ==
    /\ \E a \in MembersOfGroups(ranked) : a.MarketID = id
    /\ \A a \in MembersOfGroups(groups) : a.MarketID # id

(* The alert repeats the direction of the record of its series without     *)
(* entering the zone from outside it.                                      *)
RepeatsRecord(a) ==
    /\ a.MarketID \in DOMAIN notifiedMarkets
    /\ notifiedMarkets[a.MarketID].Direction = getDirection(a.OldProb, a.NewProb)
    /\ ~(isDeterministicZone(a.NewProb)
         /\ ~isDeterministicZone(notifiedMarkets[a.MarketID].NewProb))

C37_Step ==
    /\ pc = "polled" => notifiedMarkets' = notifiedMarkets
    /\ pc = "ranked" =>
          /\ \A id \in DOMAIN notifiedMarkets :
                FilteredOut(id) =>
                    /\ id \in DOMAIN notifiedMarkets'
                    /\ notifiedMarkets'[id] = notifiedMarkets[id]
          /\ \A a \in MembersOfGroups(ranked) :
                (RepeatsRecord(a) /\ a \notin MembersOfGroups(groups)) =>
                    now - notifiedMarkets[a.MarketID].SentAt < Cooldown
          /\ \A a \in MembersOfGroups(ranked) :
                (RepeatsRecord(a)
                   /\ now - notifiedMarkets[a.MarketID].SentAt >= Cooldown) =>
                    /\ a \in MembersOfGroups(groups)
                    /\ sendResult' = "ok" =>
                          notifiedMarkets'[a.MarketID].SentAt = now
    /\ \A id \in DOMAIN notifiedMarkets :
          /\ id \in DOMAIN notifiedMarkets'
          /\ notifiedMarkets'[id].SentAt # notifiedMarkets[id].SentAt =>
                /\ sendResult' = "ok"
                /\ \E a \in MembersOfGroups(groups) : a.MarketID = id

(* C37: suppression does not extend the cooldown: the filter changes no    *)
(* notification record and the delivery step leaves the record of a        *)
(* filtered-out series as it was, so that the send time of a record is     *)
(* that of the last successful send; an alert that repeats the recorded    *)
(* direction is kept by the filter as soon as the time since that send is  *)
(* at least CooldownMultiplier poll intervals.                             *)
C37_SuppressionKeepsSendTime == [][C37_Step]_vars

(* An alert that repeats the recorded direction is delivered in the cycle  *)
(* the cooldown ends: the record still held the send time of the start,    *)
(* through the cycle in between.                                           *)
C37_Witness ==
    /\ pc = "done"
    /\ sendResult = "ok"
    /\ cyclesRun = CooldownMultiplier
    /\ now = CooldownMultiplier * PollInterval
    /\ IdA1 \in DOMAIN notifiedMarkets
    /\ notifiedMarkets[IdA1].SentAt = now
    /\ \E a \in MembersOfGroups(groups) :
          /\ a.MarketID = IdA1
          /\ getDirection(a.OldProb, a.NewProb) = notifiedMarkets[IdA1].Direction
          /\ ~isDeterministicZone(a.NewProb)

(* An alert that repeats the recorded direction is filtered out while the  *)
(* cooldown lasts, in a cycle that delivers another series.                *)
SuppressedNextToDelivered ==
    /\ pc = "done"
    /\ sendResult = "ok"
    /\ FilteredOut(IdA1)
    /\ Len(groups) = 1
    /\ notifiedMarkets[IdA1].SentAt = 0

----------------------------------------------------------------------------
(* Client.doRequest on its own: the retry loop of one request.  request.i  *)
(* is the loop variable, request.resps the outcome of each call of         *)
(* httpClient.Do so far, in order.                                         *)

(* The outcome of httpClient.Do: a transport error or the status of the    *)
(* response.                                                               *)
TransportError == 0

Outcomes == {TransportError, 200, 302, 404, 429, 500, 503}

(* A variant that takes every error status for a server error. *)
ShouldRetryAnyError(outcome) == outcome = TransportError \/ outcome >= 400

(* err != nil, or resp.StatusCode >= 500: wait, then try again. *)
ShouldRetry(outcome) == outcome = TransportError \/ outcome >= 500

(* resp.StatusCode >= 400, once the server errors are gone. *)
IsClientError(outcome) == ~ShouldRetry(outcome) /\ outcome >= 400

Returned(req, result) == [req EXCEPT !.pos = "returned", !.result = result]

(* NewClient: maxRetries is 3 unless the configuration gives a positive    *)
(* value; the retry delay is positive as well.                             *)
InitRetry ==
    /\ states = EmptyMap
    /\ notifiedMarkets = EmptyMap
    /\ cycleCount = 0
    /\ dbStates = EmptyMap
    /\ now = 0
    /\ telegramEnabled = FALSE
    /\ pc = "request"
    /\ markets = <<>>
    /\ alerts = <<>>
    /\ ranked = <<>>
    /\ groups = <<>>
    /\ scored = <<>>
    /\ prevStates = EmptyMap
    /\ sendResult = "none"
    /\ consecutiveFailures = 0
    /\ cyclesRun = 0
    /\ pollIdx = 0
    /\ pollPhase = "none"
    /\ hpc = "waiting"
    /\ ckTodo = {}
    /\ ctxDone \in BOOLEAN
    /\ shutdownSaved = {}
    /\ twin = NoTwin
    /\ dbMarkets = EmptyMap
    /\ maxMarkets = MaxEvents
    /\ notice = NoNotice
    /\ storeCall = NoCall
    /\ pushed = NoPushes
    /\ \E n \in 1..MaxRetries :
          request = [NoRequest EXCEPT !.pos = "loop", !.maxRetries = n]

retryFrame == <<states, notifiedMarkets, cycleCount, dbStates, now,
                telegramEnabled, pc, markets, alerts, ranked, groups, scored,
                prevStates, sendResult, consecutiveFailures, cyclesRun, pollIdx,
                pollPhase, hpc, ckTodo, shutdownSaved, twin, dbMarkets,
                maxMarkets, notice, storeCall, pushed>>

(* for i := 0; i < c.maxRetries; i++ { select { case <-ctx.Done(): ... } }, *)
(* and the return after the loop.                                          *)
RLoop ==
    /\ request.pos = "loop"
    /\ request' =
          IF request.i >= request.maxRetries
          THEN Returned(request, "max retries exceeded")
          ELSE IF ctxDone THEN Returned(request, "request cancelled")
          ELSE [request EXCEPT !.pos = "do"]
    /\ UNCHANGED <<retryFrame, ctxDone>>

(* resp, err := c.httpClient.Do(req) and the tests on its result.  With a  *)
(* cancelled context Do returns an error.                                  *)
RDo ==
    /\ request.pos = "do"
    /\ \E outcome \in (IF ctxDone THEN {TransportError} ELSE Outcomes) :
          LET req == [request EXCEPT !.resps = Append(@, outcome)]
          IN  request' =
                 IF ShouldRetry(outcome)
                 THEN [req EXCEPT !.pos = "wait",
                                  !.lastErr = IF outcome = TransportError
                                              THEN "transport" ELSE "server error"]
                 ELSE IF IsClientError(outcome)
                 THEN Returned(req, "client error")
                 ELSE Returned(req, "response")
    /\ UNCHANGED <<retryFrame, ctxDone>>

(* select { case <-ctx.Done(): return ...; case <-time.After(...):         *)
(* continue }.  The delay is positive: when the context is cancelled, on   *)
(* entry or while the loop waits, the first case is taken; otherwise the   *)
(* timer fires.                                                            *)
RWait ==
    /\ request.pos = "wait"
    /\ request' =
          IF ctxDone THEN Returned(request, "request cancelled during retry")
          ELSE [request EXCEPT !.pos = "loop", !.i = @ + 1]
    /\ UNCHANGED <<retryFrame, ctxDone>>

(* The caller's context is cancelled. *)
RCancel ==
    /\ ~ctxDone
    /\ request.pos # "returned"
    /\ ctxDone' = TRUE
    /\ UNCHANGED <<retryFrame, request>>

RStep == RLoop \/ RDo \/ RWait

NextRetry == RLoop \/ RDo \/ RWait \/ RCancel

(* Do returns, within the timeout of the http.Client, and the timer fires. *)
SpecRetry == InitRetry /\ [][NextRetry]_vars /\ WF_vars(RStep)

Attempts == Len(request.resps)

FailedAttempt(k) ==
    request.resps[k] = TransportError \/ request.resps[k] >= 500

CancellationErrors == {"request cancelled", "request cancelled during retry"}

(* What holds of a call at every point. *)
RetryBookkeeping ==
    /\ Attempts <= request.maxRetries
    /\ request.i <= request.maxRetries
    /\ Attempts \in {request.i, request.i + 1}
    /\ \A k \in 1..(Attempts - 1) : FailedAttempt(k)
    /\ (request.pos \in {"loop", "do"}) => \A k \in 1..Attempts : FailedAttempt(k)
    /\ request.result = "response" =>
          /\ Attempts >= 1
          /\ request.resps[Attempts] # TransportError
          /\ request.resps[Attempts] < 400
    /\ request.result = "client error" =>
          /\ Attempts >= 1
          /\ request.resps[Attempts] \in 400..499
    /\ request.result = "max retries exceeded" =>
          /\ Attempts = request.maxRetries
          /\ \A k \in 1..Attempts : FailedAttempt(k)
    /\ request.result \in CancellationErrors =>
          /\ ctxDone
          /\ \A k \in 1..Attempts : FailedAttempt(k)

(* What holds of every step of a call. *)
RetryStep ==
    /\ Len(request'.resps) > Len(request.resps) =>
          /\ Len(request'.resps) = Len(request.resps) + 1
          /\ ~ctxDone \/ request'.resps[Len(request'.resps)] = TransportError
          /\ request'.pos = "returned" <=>
                ~ShouldRetry(request'.resps[Len(request'.resps)])
    /\ (ctxDone /\ request.pos # "returned" /\ request'.pos = "returned") =>
          \/ request'.result \in CancellationErrors
          \/ /\ request'.result = "max retries exceeded"
             /\ Attempts = request.maxRetries
    /\ (ctxDone /\ request.pos \in {"loop", "wait"}) =>
          /\ request'.pos = "returned"
          /\ request'.resps = request.resps
    /\ request.pos = "returned" => request' = request

(* C39: doRequest makes at most maxRetries HTTP attempts; it tries again   *)
(* only after a transport error or a 5xx response, returns an error at     *)
(* once on a 4xx response, returns the response of the first attempt with  *)
(* a status below 400, stops with a cancellation error once the context is *)
(* cancelled, returns a max-retries error after maxRetries failed          *)
(* attempts, and always returns.                                           *)
C39_RetryLoopBoundedAndTerminates ==
    /\ []RetryBookkeeping
    /\ [][RetryStep]_vars
    /\ <>(request.pos = "returned")

(* All maxRetries attempts failed, a transport error among them, and the   *)
(* call returned the max-retries error.                                    *)
C39_Witness ==
    /\ request.pos = "returned"
    /\ request.result = "max retries exceeded"
    /\ request.maxRetries = MaxRetries
    /\ Attempts = MaxRetries
    /\ request.resps[1] = TransportError
    /\ request.resps[Attempts] >= 500
    /\ ~ctxDone

(* A response came on the second attempt, after a server error. *)
ResponseAfterRetry ==
    /\ request.result = "response"
    /\ Attempts = 2
    /\ request.resps[1] >= 500

(* A 4xx response ended the call on its first attempt although attempts    *)
(* were left.                                                              *)
ClientErrorEndsCall ==
    /\ request.result = "client error"
    /\ Attempts = 1
    /\ request.maxRetries > 1

(* The context was cancelled while the loop waited to try again. *)
CancelledWhileWaiting ==
    /\ request.result = "request cancelled during retry"
    /\ Attempts = 1
    /\ request.resps[1] >= 500
    /\ request.maxRetries > 1

====
